---- MODULE Spec2Model ----
(***************************************************************************)
(* A model of the tokn schematic codec: the S-expression reader (sexpr.py), *)
(* the KiCad schematic parser (kicad_sch.py), the connectivity analyzer     *)
(* (connectivity.py), and the TOKN parser, encoder and decoder.             *)
(*                                                                         *)
(* Text is a sequence of one-character strings.  Coordinates are integers  *)
(* counted in units of 0.00001 (so 0.01 is 1000 units and a rounding to 4  *)
(* decimals is a rounding to a multiple of 10 units).                      *)
(***************************************************************************)
EXTENDS Integers, Sequences, FiniteSets, TLC

VARIABLES
    \* sexpr.parse: tokenize, then parse_tokens
    text, sx_pc, sx_i, tokens, sx_result, sx_open,
    \* quote_value followed by parse_csv_row
    value, cv_pc, row, cv_k, values, current, in_quotes,
    \* parse_tokn: the main loop over the lines and the row loop of a section
    lines, tk_pc, tk_i, tk_sec, tk_hdr, tk_left, tk_rows, tk_title,
    pins_list, tk_pins,
    \* transform_pin: one call
    xf_pc, xf_in, xf_out,
    \* parse_schematic_expr, analyze_connectivity and encode_tokn on a document,
    \* and then on the document decode_schematic makes of the encoded text
    doc, sch, cn_pc, parent, cn_k, nets, anonymous_counter, netlist, tokn_text,
    rt_pass, netlist1,
    \* decode_schematic in two runs of the interpreter
    tsch, dc_pc, hash_order, dc_out,
    \* the frames of the calls of analyze_connectivity that are in flight
    frames,
    \* one call of a function of the encoder or of the decoder: where it is,
    \* its argument and what it has made of it
    fn_pc, fn_in, fn_out

sexprVars == <<text, sx_pc, sx_i, tokens, sx_result, sx_open>>
csvVars == <<value, cv_pc, row, cv_k, values, current, in_quotes>>

toknVars == <<lines, tk_pc, tk_i, tk_sec, tk_hdr, tk_left, tk_rows, tk_title,
              pins_list, tk_pins>>

xfVars == <<xf_pc, xf_in, xf_out>>

connVars == <<doc, sch, cn_pc, parent, cn_k, nets, anonymous_counter, netlist,
              tokn_text, rt_pass, netlist1>>

decVars == <<tsch, dc_pc, hash_order, dc_out>>

callVars == <<frames>>

fnVars == <<fn_pc, fn_in, fn_out>>

vars == <<sexprVars, csvVars, toknVars, xfVars, connVars, decVars, callVars, fnVars>>

\* what each part of the program leaves alone
sexprRest == <<csvVars, toknVars, xfVars, connVars, decVars, callVars, fnVars>>
csvRest == <<sexprVars, toknVars, xfVars, connVars, decVars, callVars, fnVars>>
toknRest == <<sexprVars, csvVars, xfVars, connVars, decVars, callVars, fnVars>>
xfRest == <<sexprVars, csvVars, toknVars, connVars, decVars, callVars, fnVars>>
connRest == <<sexprVars, csvVars, toknVars, xfVars, decVars, callVars, fnVars>>
decRest == <<sexprVars, csvVars, toknVars, xfVars, connVars, callVars, fnVars>>
callRest == <<sexprVars, csvVars, toknVars, xfVars, connVars, decVars, fnVars>>
fnRest == <<sexprVars, csvVars, toknVars, xfVars, connVars, decVars, callVars>>

----------------------------------------------------------------------------
(* Characters and generic sequence helpers *)

DQ == "\""
BS == "\\"
NL == "\n"
CR == "\r"
TAB == "\t"

\* every sequence over S of length 0..n
SeqsUpTo(S, n) == UNION { [1..k -> S] : k \in 0..n }

Max2(a, b) == IF a >= b THEN a ELSE b
Min2(a, b) == IF a <= b THEN a ELSE b
Abs(a) == IF a < 0 THEN -a ELSE a

\* Python s[a:b] with 1-based inclusive ends, clipped to the sequence
Slice(s, a, b) == SubSeq(s, Max2(a, 1), Min2(b, Len(s)))

StartsWith(s, p) == Len(s) >= Len(p) /\ SubSeq(s, 1, Len(p)) = p
EndsWith(s, p) == Len(s) >= Len(p) /\ SubSeq(s, Len(s) - Len(p) + 1, Len(s)) = p

RECURSIVE ReplaceFrom(_, _, _, _)
ReplaceFrom(s, pat, rep, k) ==
    IF k > Len(s) THEN <<>>
    ELSE IF k + Len(pat) - 1 <= Len(s) /\ SubSeq(s, k, k + Len(pat) - 1) = pat
         THEN rep \o ReplaceFrom(s, pat, rep, k + Len(pat))
         ELSE <<s[k]>> \o ReplaceFrom(s, pat, rep, k + 1)

\* str.replace(pat, rep): every non-overlapping occurrence, left to right
Replace(s, pat, rep) == ReplaceFrom(s, pat, rep, 1)

----------------------------------------------------------------------------
(* More sequence helpers *)

RECURSIVE Concat(_)
\* the concatenation of a sequence of sequences
Concat(ss) == IF ss = <<>> THEN <<>> ELSE Head(ss) \o Concat(Tail(ss))

Range(s) == { s[k] : k \in 1..Len(s) }

RECURSIVE Dedup(_)
\* the elements of s in the order of their first occurrence
Dedup(s) ==
    IF s = <<>> THEN <<>>
    ELSE LET d == Dedup(SubSeq(s, 1, Len(s) - 1))
             x == s[Len(s)]
         IN  IF x \in Range(d) THEN d ELSE Append(d, x)

RECURSIVE AscendingSeq(_)
\* a finite set of integers as an ascending sequence
AscendingSeq(S) ==
    IF S = {} THEN <<>>
    ELSE LET m == CHOOSE x \in S : \A y \in S : x <= y
         IN  <<m>> \o AscendingSeq(S \ {m})

\* the characters of the names of the model, in the order of their codes
CharOrder ==
    << " ", "#", "+", ",", "-", ".", "0", "1", "2", "3", "4", "5", "6", "7", "8",
       "9", ":", "A", "B", "C", "D", "E", "F", "G", "H", "I", "J", "K", "L", "M",
       "N", "O", "P", "Q", "R", "S", "T", "U", "V", "W", "X", "Y", "Z", "_",
       "a", "b", "c", "d", "e", "f", "g", "h", "i", "j", "k", "l", "m", "n",
       "o", "p", "q", "r", "s", "t", "u", "v", "w", "x", "y", "z", "~" >>

Ord(c) == CHOOSE k \in 1..Len(CharOrder) : CharOrder[k] = c

\* a string as the sequence of the codes of its characters
Codes(s) == [k \in 1..Len(s) |-> Ord(s[k])]

RECURSIVE IntsLess(_, _)
\* < on two sequences of integers, and so Python's < on two strings
IntsLess(a, b) ==
    IF b = <<>> THEN FALSE
    ELSE IF a = <<>> THEN TRUE
    ELSE IF Head(a) = Head(b) THEN IntsLess(Tail(a), Tail(b))
    ELSE Head(a) < Head(b)

RECURSIVE KeyLessEq(_, _)
\* <= on two keys of a sort, tuples of fields: a number is a field of one
\* integer, a string the field of its codes
KeyLessEq(a, b) ==
    IF a = <<>> THEN TRUE
    ELSE IF b = <<>> THEN FALSE
    ELSE IF Head(a) = Head(b) THEN KeyLessEq(Tail(a), Tail(b))
    ELSE IntsLess(Head(a), Head(b))

RECURSIVE InsertByKey(_, _)
InsertByKey(s, e) ==
    IF s = <<>> THEN <<e>>
    ELSE IF KeyLessEq(s[Len(s)].key, e.key) THEN Append(s, e)
    ELSE Append(InsertByKey(SubSeq(s, 1, Len(s) - 1), e), s[Len(s)])

RECURSIVE SortEntries(_)
SortEntries(es) ==
    IF es = <<>> THEN <<>>
    ELSE InsertByKey(SortEntries(SubSeq(es, 1, Len(es) - 1)), es[Len(es)])

\* list.sort(key=...) and sorted(..., key=...): a stable sort of the items
\* by their keys
SortByKey(items, keys) ==
    LET es == SortEntries([k \in 1..Len(items) |-> [key |-> keys[k], item |-> items[k]]])
    IN  [k \in 1..Len(es) |-> es[k].item]

Digits == {"0", "1", "2", "3", "4", "5", "6", "7", "8", "9"}

DigitVal(c) == Ord(c) - Ord("0")

\* str.isdigit
IsDigits(s) == s # <<>> /\ \A k \in 1..Len(s) : s[k] \in Digits

RECURSIVE ParseInt(_)
\* int(s) of a string of digits
ParseInt(s) ==
    IF s = <<>> THEN 0
    ELSE 10 * ParseInt(SubSeq(s, 1, Len(s) - 1)) + DigitVal(s[Len(s)])

RECURSIVE IntStr(_)
\* str(n) of a natural number
IntStr(n) ==
    IF n < 10 THEN <<CharOrder[Ord("0") + n]>>
    ELSE Append(IntStr(n \div 10), CharOrder[Ord("0") + (n % 10)])

\* names of library symbols and nets
DeviceR == <<"D", "e", "v", "i", "c", "e", ":", "R">>
DeviceC == <<"D", "e", "v", "i", "c", "e", ":", "C">>
GND == <<"G", "N", "D">>

----------------------------------------------------------------------------
(* sexpr.py *)

\* bound: longest input text of the S-expression reader
MaxText == 4

SxAlphabet == {"(", ")", DQ, BS, "a", "n", " "}

Whitespace == {" ", TAB, NL, CR}

\* tokenize, lines 41-48: the index where the scan of a quoted string stops
RECURSIVE QuoteScan(_, _)
QuoteScan(t, j) ==
    IF j > Len(t) THEN j
    ELSE IF t[j] = BS /\ j + 1 <= Len(t) THEN QuoteScan(t, j + 2)
    ELSE IF t[j] = DQ THEN j
    ELSE QuoteScan(t, j + 1)

\* tokenize, lines 54-56: the index after a bare atom
RECURSIVE AtomScan(_, _)
AtomScan(t, j) ==
    IF j <= Len(t) /\ t[j] \notin (Whitespace \cup {"(", ")"})
    THEN AtomScan(t, j + 1)
    ELSE j

LPAREN == <<"(">>
RPAREN == <<")">>

SxRaise(msg) == [err |-> TRUE, msg |-> msg]
SxOk(val, pos) == [err |-> FALSE, val |-> val, pos |-> pos]

\* parse_tokens, lines 86-92: quotes stripped and escapes resolved
Unescape(s) ==
    LET s1 == Replace(s, <<BS, "n">>, <<NL>>)
        s2 == Replace(s1, <<BS, "r">>, <<CR>>)
        s3 == Replace(s2, <<BS, "t">>, <<TAB>>)
        s4 == Replace(s3, <<BS, DQ>>, <<DQ>>)
    IN  Replace(s4, <<BS, BS>>, <<BS>>)

ParseAtom(token) ==
    IF StartsWith(token, <<DQ>>) /\ EndsWith(token, <<DQ>>)
    THEN Unescape(Slice(token, 2, Len(token) - 1))
    ELSE token

RECURSIVE parse_tokens(_, _), ParseList(_, _, _)
parse_tokens(toks, pos) ==
    IF pos > Len(toks) THEN SxRaise("Unexpected end of input")
    ELSE IF toks[pos] = LPAREN THEN ParseList(toks, pos + 1, <<>>)
    ELSE IF toks[pos] = RPAREN THEN SxRaise("Unexpected closing parenthesis")
    ELSE SxOk([kind |-> "atom", s |-> ParseAtom(toks[pos])], pos + 1)

\* parse_tokens, lines 72-79: the loop over a list's items
ParseList(toks, pos, acc) ==
    IF pos <= Len(toks) /\ toks[pos] # RPAREN
    THEN LET r == parse_tokens(toks, pos)
         IN  IF r.err THEN r ELSE ParseList(toks, r.pos, Append(acc, r.val))
    ELSE IF pos > Len(toks) THEN SxRaise("Missing closing parenthesis")
    ELSE SxOk([kind |-> "list", items |-> acc], pos + 1)

NoResult == [kind |-> "none"]

SexprIdle ==
    /\ text = <<>> /\ sx_pc = "idle" /\ sx_i = 1 /\ tokens = <<>>
    /\ sx_result = NoResult /\ sx_open = FALSE

SexprStart ==
    /\ text \in SeqsUpTo(SxAlphabet, MaxText)
    /\ sx_pc = "tokenize" /\ sx_i = 1 /\ tokens = <<>>
    /\ sx_result = NoResult /\ sx_open = FALSE

\* one iteration of tokenize's outer loop on a whitespace character
TokenizeSpace ==
    /\ sx_pc = "tokenize" /\ sx_i <= Len(text)
    /\ text[sx_i] \in Whitespace
    /\ sx_i' = sx_i + 1
    /\ UNCHANGED <<text, sx_pc, tokens, sx_result, sx_open, sexprRest>>

TokenizeParen ==
    /\ sx_pc = "tokenize" /\ sx_i <= Len(text)
    /\ text[sx_i] \in {"(", ")"}
    /\ tokens' = Append(tokens, <<text[sx_i]>>)
    /\ sx_i' = sx_i + 1
    /\ UNCHANGED <<text, sx_pc, sx_result, sx_open, sexprRest>>

\* sx_open records that the scan of a quoted string ran off the end of the
\* text without meeting the closing quote (j = len(text) after the loop)
TokenizeQuoted ==
    /\ sx_pc = "tokenize" /\ sx_i <= Len(text)
    /\ text[sx_i] = DQ
    /\ LET j == QuoteScan(text, sx_i + 1)
       IN  /\ tokens' = Append(tokens, Slice(text, sx_i, j))
           /\ sx_i' = j + 1
           /\ sx_open' = (sx_open \/ j > Len(text))
    /\ UNCHANGED <<text, sx_pc, sx_result, sexprRest>>

TokenizeAtom ==
    /\ sx_pc = "tokenize" /\ sx_i <= Len(text)
    /\ text[sx_i] \notin (Whitespace \cup {"(", ")", DQ})
    /\ LET j == AtomScan(text, sx_i)
       IN  /\ tokens' = Append(tokens, Slice(text, sx_i, j - 1))
           /\ sx_i' = j
    /\ UNCHANGED <<text, sx_pc, sx_result, sx_open, sexprRest>>

TokenizeEnd ==
    /\ sx_pc = "tokenize" /\ sx_i > Len(text)
    /\ sx_pc' = "parse"
    /\ UNCHANGED <<text, sx_i, tokens, sx_result, sx_open, sexprRest>>

\* parse, lines 13-14: the result of parse_tokens(tokens, 0), its position dropped
parse ==
    /\ sx_pc = "parse"
    /\ LET r == parse_tokens(tokens, 1)
       IN  /\ sx_pc' = IF r.err THEN "raised" ELSE "returned"
           /\ sx_result' = IF r.err THEN NoResult ELSE r.val
    /\ UNCHANGED <<text, sx_i, tokens, sx_open, sexprRest>>

NextSexpr ==
    \/ TokenizeSpace
    \/ TokenizeParen
    \/ TokenizeQuoted
    \/ TokenizeAtom
    \/ TokenizeEnd
    \/ parse

----------------------------------------------------------------------------
(* Claims about sexpr.parse *)

\* The tokens of a text are balanced when they are exactly one complete
\* expression: the nesting depth never goes below zero, returns to zero at
\* the last token and not before it.
RECURSIVE DepthAt(_, _)
DepthAt(toks, k) ==
    IF k = 0 THEN 0
    ELSE DepthAt(toks, k - 1)
         + (IF toks[k] = LPAREN THEN 1 ELSE IF toks[k] = RPAREN THEN -1 ELSE 0)

Balanced(toks) ==
    /\ Len(toks) >= 1
    /\ \A k \in 1..Len(toks) : DepthAt(toks, k) >= 0
    /\ \A k \in 1..Len(toks) : (DepthAt(toks, k) = 0 /\ toks[k] # LPAREN) => k = Len(toks)
    /\ DepthAt(toks, Len(toks)) = 0

\* C6: parse raises, and returns no tree, for every text whose parentheses
\* are unbalanced (an unclosed list, a surplus ')', or a token left over
\* after the first complete expression).
C6_UnbalancedRaises ==
    sx_pc = "returned" => Balanced(tokens)

\* C7: parse raises for every text in which a double-quoted string is still
\* open at the end of the input.
C7_OpenQuoteRaises ==
    (sx_pc \in {"returned", "raised"} /\ sx_open) => sx_pc = "raised"

----------------------------------------------------------------------------
(* A string written by the decoder as a quoted atom and read by sexpr.parse *)

\* bound: longest string written as a quoted atom
MaxEscLen == 3

EscAlphabet == {BS, DQ, "n", "a"}

\* tokn_decoder.esc, lines 115-119
esc(s) == Replace(Replace(s, <<BS>>, <<BS, BS>>), <<DQ>>, <<BS, DQ>>)

EscStart ==
    /\ fn_pc = "esc" /\ fn_in \in SeqsUpTo(EscAlphabet, MaxEscLen) /\ fn_out = <<>>
    /\ text = <<>> /\ sx_pc = "idle" /\ sx_i = 1 /\ tokens = <<>>
    /\ sx_result = NoResult /\ sx_open = FALSE

\* the atom "{esc(s)}" of the decoder's text, handed to sexpr.parse
WriteAtom ==
    /\ fn_pc = "esc"
    /\ text' = <<DQ>> \o esc(fn_in) \o <<DQ>>
    /\ fn_pc' = "written"
    /\ sx_pc' = "tokenize"
    /\ UNCHANGED <<sx_i, tokens, sx_result, sx_open, fn_in, fn_out, csvVars, toknVars,
                   xfVars, connVars, decVars, callVars>>

NextEsc ==
    \/ WriteAtom
    \/ TokenizeQuoted
    \/ TokenizeEnd
    \/ parse

\* C27: sexpr.parse of the quoted atom the decoder writes for a string s
\* returns s, also for a string with backslashes or double quotes.
C27_EscRoundTrip ==
    /\ fn_pc = "written" => sx_pc # "raised"
    /\ fn_pc = "written" /\ sx_pc = "returned" =>
           sx_result = [kind |-> "atom", s |-> fn_in]

----------------------------------------------------------------------------
(* tokn_encoder.quote_value and tokn_parser.parse_csv_row *)

\* bound: longest string handed to quote_value
MaxValue == 3

CsvAlphabet == {",", DQ, BS, "a"}

Lower(c) ==
    CASE c = "T" -> "t" [] c = "R" -> "r" [] c = "U" -> "u" [] c = "E" -> "e"
      [] c = "F" -> "f" [] c = "A" -> "a" [] c = "L" -> "l" [] c = "S" -> "s"
      [] c = "N" -> "n" [] OTHER -> c

LowerStr(s) == [k \in 1..Len(s) |-> Lower(s[k])]

Contains(s, c) == \E k \in 1..Len(s) : s[k] = c

ReservedWords ==
    { <<"t", "r", "u", "e">>, <<"f", "a", "l", "s", "e">>, <<"n", "u", "l", "l">> }

needs_quoting(v) ==
    IF v = <<>> THEN FALSE
    ELSE IF Contains(v, ",") \/ Contains(v, DQ) \/ Contains(v, BS) THEN TRUE
    ELSE IF LowerStr(v) \in ReservedWords THEN TRUE
    ELSE FALSE

quote_value(v) ==
    IF needs_quoting(v)
    THEN <<DQ>> \o Replace(Replace(v, <<BS>>, <<BS, BS>>), <<DQ>>, <<BS, DQ>>) \o <<DQ>>
    ELSE v

\* parse_csv_row as one fold, for the callers that read whole rows
RECURSIVE CsvFrom(_, _, _, _, _)
CsvFrom(r, k, vals, cur, inq) ==
    IF k > Len(r) THEN Append(vals, cur)
    ELSE IF r[k] = DQ THEN CsvFrom(r, k + 1, vals, cur, ~inq)
    ELSE IF r[k] = "," /\ ~inq THEN CsvFrom(r, k + 1, Append(vals, cur), <<>>, inq)
    ELSE CsvFrom(r, k + 1, vals, Append(cur, r[k]), inq)

parse_csv_row(r) == CsvFrom(r, 1, <<>>, <<>>, FALSE)

CsvIdle ==
    /\ value = <<>> /\ cv_pc = "idle" /\ row = <<>> /\ cv_k = 1
    /\ values = <<>> /\ current = <<>> /\ in_quotes = FALSE

CsvStart ==
    /\ value \in SeqsUpTo(CsvAlphabet, MaxValue)
    /\ cv_pc = "quote" /\ row = <<>> /\ cv_k = 1
    /\ values = <<>> /\ current = <<>> /\ in_quotes = FALSE

\* the encoder writes the value as a row of one field
QuoteValue ==
    /\ cv_pc = "quote"
    /\ row' = quote_value(value)
    /\ cv_pc' = "scan"
    /\ UNCHANGED <<value, cv_k, values, current, in_quotes, csvRest>>

\* parse_csv_row, lines 175-176: a quote character toggles in_quotes and is dropped
CsvQuoteChar ==
    /\ cv_pc = "scan" /\ cv_k <= Len(row)
    /\ row[cv_k] = DQ
    /\ in_quotes' = ~in_quotes
    /\ cv_k' = cv_k + 1
    /\ UNCHANGED <<value, cv_pc, row, values, current, csvRest>>

\* parse_csv_row, lines 177-179: a comma outside quotes ends the field
CsvComma ==
    /\ cv_pc = "scan" /\ cv_k <= Len(row)
    /\ row[cv_k] = "," /\ ~in_quotes
    /\ values' = Append(values, current)
    /\ current' = <<>>
    /\ cv_k' = cv_k + 1
    /\ UNCHANGED <<value, cv_pc, row, in_quotes, csvRest>>

\* parse_csv_row, lines 180-181: every other character is kept as it is
CsvChar ==
    /\ cv_pc = "scan" /\ cv_k <= Len(row)
    /\ row[cv_k] # DQ /\ ~(row[cv_k] = "," /\ ~in_quotes)
    /\ current' = Append(current, row[cv_k])
    /\ cv_k' = cv_k + 1
    /\ UNCHANGED <<value, cv_pc, row, values, in_quotes, csvRest>>

\* parse_csv_row, lines 183-184
CsvEnd ==
    /\ cv_pc = "scan" /\ cv_k > Len(row)
    /\ values' = Append(values, current)
    /\ cv_pc' = "done"
    /\ UNCHANGED <<value, row, cv_k, current, in_quotes, csvRest>>

NextCsv ==
    \/ QuoteValue
    \/ CsvQuoteChar
    \/ CsvComma
    \/ CsvChar
    \/ CsvEnd

\* C5: a string that contains a comma, whatever else it contains, comes back
\* from parse_csv_row(quote_value(s)) as the one-element list [s].
C5_QuotingLaw ==
    (cv_pc = "done" /\ Contains(value, ",")) => values = <<value>>

----------------------------------------------------------------------------
(* tokn_parser.parse_tokn *)

\* bound: most lines of a TOKN text
MaxLines == 4

\* A stripped line, by what parse_tokn tests of it: empty, starting with '#',
\* starting with 'title:', matching one of the four header patterns (with its
\* declared count), or anything else: a data row, which may start with one of
\* the words pins, nets, wires, components (kw) and splits into cols values.
BlankLine == [kind |-> "blank"]
CommentLine == [kind |-> "comment"]
TitleLine == [kind |-> "title"]
Header(sec, n) == [kind |-> "header", sec |-> sec, n |-> n]
DataRow(kw, cols) == [kind |-> "data", kw |-> kw, cols |-> cols]

LineKinds ==
    { BlankLine, CommentLine, TitleLine,
      Header("components", 2), Header("nets", 1), Header("nets", 2),
      Header("pins", 2), Header("wires", 2),
      DataRow(FALSE, 2), DataRow(FALSE, 1), DataRow(TRUE, 2) }

\* how many values parse_csv_row splits the line into (a title line of the
\* inputs holds no comma)
Cols(l) == IF l.kind = "data" THEN l.cols ELSE 1

IsSkipped(l) == l.kind \in {"blank", "comment"}

\* line 113: re.match(r'(pins|nets|wires|components)\{?', row)
StartsSection(l) == l.kind = "header" \/ (l.kind = "data" /\ l.kw)

\* text.strip().split('\n'): the first and the last line are not blank, but
\* for the empty text, which is one empty line
StrippedLines(ls) ==
    /\ Len(ls) >= 1
    /\ Len(ls) > 1 => (ls[1].kind # "blank" /\ ls[Len(ls)].kind # "blank")

ToknIdle ==
    /\ lines = <<>> /\ tk_pc = "idle" /\ tk_i = 1 /\ tk_sec = "none"
    /\ tk_hdr = 0 /\ tk_left = 0 /\ tk_rows = <<>> /\ tk_title = 0
    /\ pins_list = <<>> /\ tk_pins = <<>>

ToknStart ==
    /\ lines \in { ls \in SeqsUpTo(LineKinds, MaxLines) : StrippedLines(ls) }
    /\ tk_pc = "main" /\ tk_i = 1 /\ tk_sec = "none"
    /\ tk_hdr = 0 /\ tk_left = 0 /\ tk_rows = <<>> /\ tk_title = 0
    /\ pins_list = <<>> /\ tk_pins = <<>>

\* lines 58-61
MainSkip ==
    /\ tk_pc = "main" /\ tk_i <= Len(lines)
    /\ IsSkipped(lines[tk_i])
    /\ tk_i' = tk_i + 1
    /\ UNCHANGED <<lines, tk_pc, tk_sec, tk_hdr, tk_left, tk_rows, tk_title,
                   pins_list, tk_pins, toknRest>>

\* lines 64-67
MainTitle ==
    /\ tk_pc = "main" /\ tk_i <= Len(lines)
    /\ lines[tk_i].kind = "title"
    /\ tk_title' = tk_i
    /\ tk_i' = tk_i + 1
    /\ UNCHANGED <<lines, tk_pc, tk_sec, tk_hdr, tk_left, tk_rows,
                   pins_list, tk_pins, toknRest>>

\* lines 70-74, 99-104, 123-126, 143-146: a header starts its section's rows
MainHeader ==
    /\ tk_pc = "main" /\ tk_i <= Len(lines)
    /\ lines[tk_i].kind = "header"
    /\ tk_sec' = lines[tk_i].sec
    /\ tk_left' = lines[tk_i].n
    /\ tk_hdr' = tk_i
    /\ pins_list' = <<>>
    /\ tk_i' = tk_i + 1
    /\ tk_pc' = "rows"
    /\ UNCHANGED <<lines, tk_rows, tk_title, tk_pins, toknRest>>

\* line 163 without its i += 1: the line is looked at again
MainOther_stays ==
    /\ tk_pc = "main" /\ tk_i <= Len(lines)
    /\ lines[tk_i].kind = "data"
    /\ UNCHANGED <<lines, tk_i, tk_pc, tk_sec, tk_hdr, tk_left, tk_rows, tk_title,
                   pins_list, tk_pins, toknRest>>

\* line 163: a line that is nothing the main loop knows is passed over
MainOther ==
    /\ tk_pc = "main" /\ tk_i <= Len(lines)
    /\ lines[tk_i].kind = "data"
    /\ tk_i' = tk_i + 1
    /\ UNCHANGED <<lines, tk_pc, tk_sec, tk_hdr, tk_left, tk_rows, tk_title,
                   pins_list, tk_pins, toknRest>>

MainEnd ==
    /\ tk_pc = "main" /\ tk_i > Len(lines)
    /\ tk_pc' = "done"
    /\ UNCHANGED <<lines, tk_i, tk_sec, tk_hdr, tk_left, tk_rows, tk_title,
                   pins_list, tk_pins, toknRest>>

\* lines 78-81 (and 108-111, 130-133, 150-153): one pass of `for _ in
\* range(count)` on a blank or comment line: the line is passed over by
\* `continue`, which also ends this pass of the for loop
RowSkip ==
    /\ tk_pc = "rows" /\ tk_left > 0 /\ tk_i <= Len(lines)
    /\ IsSkipped(lines[tk_i])
    /\ tk_i' = tk_i + 1
    /\ tk_left' = tk_left - 1
    /\ UNCHANGED <<lines, tk_pc, tk_sec, tk_hdr, tk_rows, tk_title,
                   pins_list, tk_pins, toknRest>>

\* lines 82-95, 134-139, 154-159: a row of components, nets or wires
RowParse ==
    /\ tk_pc = "rows" /\ tk_left > 0 /\ tk_i <= Len(lines)
    /\ ~IsSkipped(lines[tk_i])
    /\ tk_sec # "pins"
    /\ tk_rows' = Append(tk_rows, [sec |-> tk_sec, hdr |-> tk_hdr, line |-> tk_i])
    /\ tk_i' = tk_i + 1
    /\ tk_left' = tk_left - 1
    /\ UNCHANGED <<lines, tk_pc, tk_sec, tk_hdr, tk_title, pins_list, tk_pins,
                   toknRest>>

\* lines 115-118: a pin row, kept when it has at least two values
PinRowParse ==
    /\ tk_pc = "rows" /\ tk_left > 0 /\ tk_i <= Len(lines)
    /\ ~IsSkipped(lines[tk_i])
    /\ tk_sec = "pins" /\ ~StartsSection(lines[tk_i])
    /\ pins_list' = IF Cols(lines[tk_i]) >= 2 THEN Append(pins_list, tk_i)
                    ELSE pins_list
    /\ tk_rows' = IF Cols(lines[tk_i]) >= 2
                  THEN Append(tk_rows, [sec |-> tk_sec, hdr |-> tk_hdr, line |-> tk_i])
                  ELSE tk_rows
    /\ tk_i' = tk_i + 1
    /\ tk_left' = tk_left - 1
    /\ UNCHANGED <<lines, tk_pc, tk_sec, tk_hdr, tk_title, tk_pins, toknRest>>

\* lines 112-114, 119-120: a pins section stops at a line that starts a section
PinsBreak ==
    /\ tk_pc = "rows" /\ tk_left > 0 /\ tk_i <= Len(lines)
    /\ tk_sec = "pins" /\ StartsSection(lines[tk_i])
    /\ tk_pins' = Append(tk_pins, [hdr |-> tk_hdr, pins |-> pins_list])
    /\ tk_pc' = "main"
    /\ UNCHANGED <<lines, tk_i, tk_sec, tk_hdr, tk_left, tk_rows, tk_title,
                   pins_list, toknRest>>

\* lines 76-77 and the end of range(count): back to the main loop
RowsEnd ==
    /\ tk_pc = "rows"
    /\ tk_left = 0 \/ tk_i > Len(lines)
    /\ tk_pins' = IF tk_sec = "pins"
                  THEN Append(tk_pins, [hdr |-> tk_hdr, pins |-> pins_list])
                  ELSE tk_pins
    /\ tk_pc' = "main"
    /\ UNCHANGED <<lines, tk_i, tk_sec, tk_hdr, tk_left, tk_rows, tk_title,
                   pins_list, toknRest>>

NextTokn ==
    \/ MainSkip
    \/ MainTitle
    \/ MainHeader
    \/ MainOther
    \/ MainEnd
    \/ RowSkip
    \/ RowParse
    \/ PinRowParse
    \/ PinsBreak
    \/ RowsEnd

\* the lines after line h that are neither blank nor comments, in order
RECURSIVE RowLinesAfter(_, _)
RowLinesAfter(ls, h) ==
    IF h >= Len(ls) THEN <<>>
    ELSE IF IsSkipped(ls[h + 1]) THEN RowLinesAfter(ls, h + 1)
    ELSE <<h + 1>> \o RowLinesAfter(ls, h + 1)

\* the header at line h is followed by its N rows, plain data rows, with
\* blank and comment lines anywhere between them
HasItsRows(ls, h) ==
    /\ Len(RowLinesAfter(ls, h)) >= ls[h].n
    /\ \A k \in 1..ls[h].n :
          LET l == ls[RowLinesAfter(ls, h)[k]]
          IN  l.kind = "data" /\ ~l.kw /\ l.cols >= 2

ParsedRowsOf(h) ==
    LET idx == { k \in 1..Len(tk_rows) : tk_rows[k].hdr = h }
    IN  { tk_rows[k].line : k \in idx }

\* a header line is read as a header unless the row loop of the section
\* before it took it for a row
ReadAsHeader(h) == h \notin { tk_rows[k].line : k \in 1..Len(tk_rows) }

\* C8: a header that declares N rows and is followed by them gets exactly its
\* N rows parsed, wherever blank and comment lines lie between the rows.
C8_HeaderGetsItsRows ==
    tk_pc = "done" =>
        \A h \in 1..Len(lines) :
            (lines[h].kind = "header" /\ ReadAsHeader(h) /\ HasItsRows(lines, h))
            => ParsedRowsOf(h) =
                 { RowLinesAfter(lines, h)[k] : k \in 1..lines[h].n }

\* a step of the main loop or of a row loop moves on to a later line, or ends
\* its loop
AdvancesOrEnds ==
    \/ tk_i' > tk_i
    \/ tk_pc = "rows" /\ tk_pc' = "main"
    \/ tk_pc = "main" /\ tk_pc' = "done"

\* a pins section that stops before its count is reached, at a line that
\* starts a section, leaves the line index on that line
BreakKeepsLine ==
    (tk_pc = "rows" /\ tk_sec = "pins" /\ tk_left > 0 /\ tk_i <= Len(lines)
     /\ StartsSection(lines[tk_i]) /\ tk_pc' = "main")
    => tk_i' = tk_i

\* the main loop on a header line starts the section of that header
HeaderStartsSection ==
    (tk_pc = "main" /\ tk_i <= Len(lines) /\ lines[tk_i].kind = "header")
    => (tk_pc' = "rows" /\ tk_hdr' = tk_i /\ tk_sec' = lines[tk_i].sec
        /\ tk_left' = lines[tk_i].n /\ tk_i' = tk_i + 1)

\* C30: parse_tokn comes to its end on every text; every step of the main
\* loop and of the row loop of a section moves the line index forward or ends
\* its loop; a pins section that stops early at a line that starts a section
\* leaves that line to the main loop, which starts the section of a header
\* line.
C30_Terminates ==
    /\ <>(tk_pc = "done")
    /\ [][AdvancesOrEnds]_vars
    /\ [][BreakKeepsLine]_vars
    /\ [][HeaderStartsSection]_vars

\* C30, its case: the parse is over; a pins section stopped before its count
\* at a header line, with a pin row read before it, and the rows after that
\* header were read as rows of its section
C30_Witness ==
    /\ tk_pc = "done"
    /\ \E p \in 1..Len(lines), h \in 1..Len(lines) :
           /\ lines[p].kind = "header" /\ lines[p].sec = "pins"
           /\ lines[h].kind = "header" /\ h = p + 2 /\ lines[p].n >= 2
           /\ [hdr |-> p, pins |-> <<p + 1>>] \in Range(tk_pins)
           /\ \E k \in 1..Len(tk_rows) : tk_rows[k].hdr = h /\ tk_rows[k].line = h + 1

----------------------------------------------------------------------------
(* kicad_sch.py: points, the pin transform, the schematic parser *)

\* round(v, 4) of a coordinate counted in units of 0.00001
Round4(v) ==
    LET q == v \div 10
        r == v % 10
    IN  IF r < 5 THEN q * 10
        ELSE IF r > 5 THEN (q + 1) * 10
        ELSE IF q % 2 = 0 THEN q * 10 ELSE (q + 1) * 10

\* Point.__eq__ and Point.__hash__, lines 19-26
PointEq(p, q) == Round4(p[1]) = Round4(q[1]) /\ Round4(p[2]) = Round4(q[2])

\* math.cos and math.sin of math.radians(d) for d a multiple of 90: the
\* floating-point results differ from these by less than 1e-15, far below
\* the 4 decimals a Point is compared on
CosDeg(d) ==
    LET m == d % 360
    IN  IF m = 0 THEN 1 ELSE IF m = 180 THEN -1 ELSE 0

SinDeg(d) ==
    LET m == d % 360
    IN  IF m = 90 THEN 1 ELSE IF m = 270 THEN -1 ELSE 0

\* a mutation of transform_pin: the mirror applied after the rotation
transform_pin_mirror_last(pin_x, pin_y, comp_x, comp_y, angle, mirror) ==
    LET px == pin_x
        py == -pin_y
        cos_a == CosDeg(-angle)
        sin_a == SinDeg(-angle)
        rx == px * cos_a - py * sin_a
        ry == px * sin_a + py * cos_a
        mx == IF mirror = "y" THEN -rx ELSE rx
        my == IF mirror = "x" THEN -ry ELSE ry
    IN  <<comp_x + mx, comp_y + my>>

transform_pin(pin_x, pin_y, comp_x, comp_y, angle, mirror) ==
    LET px0 == pin_x
        py0 == -pin_y
        py == IF mirror = "x" THEN -py0 ELSE py0
        px == IF mirror = "y" THEN -px0 ELSE px0
        cos_a == CosDeg(-angle)
        sin_a == SinDeg(-angle)
        rx == px * cos_a - py * sin_a
        ry == px * sin_a + py * cos_a
    IN  <<comp_x + rx, comp_y + ry>>

\* bound: pin coordinates range over -MaxPin..MaxPin millimetres
MaxPin == 5

\* one millimetre in coordinate units
MM == 100000

Angles == {0, 90, 180, 270}
Mirrors == {"none", "x", "y"}

XfIdle == xf_pc = "idle" /\ xf_in = <<>> /\ xf_out = <<>>

XfStart ==
    /\ xf_pc = "call"
    /\ xf_out = <<>>
    /\ xf_in \in [ pin_x : { k * MM : k \in -MaxPin..MaxPin },
                   pin_y : { k * MM : k \in -MaxPin..MaxPin },
                   comp : { <<0, 0>>, <<100 * MM, 100 * MM>> },
                   angle : Angles,
                   mirror : Mirrors ]

\* parse_component, line 293: abs_pos = transform_pin(pin.x, pin.y, x, y, angle, mirror)
TransformPin ==
    /\ xf_pc = "call"
    /\ xf_out' = transform_pin(xf_in.pin_x, xf_in.pin_y, xf_in.comp[1], xf_in.comp[2],
                               xf_in.angle, xf_in.mirror)
    /\ xf_pc' = "done"
    /\ UNCHANGED <<xf_in, xfRest>>

NextXf == TransformPin

\* The four steps of the documented order, each as a map of the plane.
FlipY(p) == <<p[1], -p[2]>>

MirrorBy(p, m) ==
    IF m = "x" THEN <<p[1], -p[2]>>
    ELSE IF m = "y" THEN <<-p[1], p[2]>>
    ELSE p

\* the standard rotation of the plane by d degrees, d a multiple of 90
RotateBy(p, d) ==
    LET m == d % 360
    IN  IF m = 0 THEN p
        ELSE IF m = 90 THEN <<-p[2], p[1]>>
        ELSE IF m = 180 THEN <<-p[1], -p[2]>>
        ELSE <<p[2], -p[1]>>

Translate(p, c) == <<p[1] + c[1], p[2] + c[2]>>

\* C10: transform_pin is flip, then mirror, then rotation by -angle, then
\* translation; and the pin (0, 5) on an instance at (100, 100) turned by 90
\* and not mirrored lands on (95, 100).
C10_TransformOrder ==
    xf_pc = "done" =>
        /\ xf_out = Translate(
                        RotateBy(MirrorBy(FlipY(<<xf_in.pin_x, xf_in.pin_y>>), xf_in.mirror),
                                 -xf_in.angle),
                        xf_in.comp)
        /\ (/\ xf_in.pin_x = 0 /\ xf_in.pin_y = 5 * MM
            /\ xf_in.comp = <<100 * MM, 100 * MM>>
            /\ xf_in.angle = 90 /\ xf_in.mirror = "none")
           => xf_out = <<95 * MM, 100 * MM>>

\* the documented example has been transformed
C10_Witness ==
    /\ xf_pc = "done"
    /\ xf_in.pin_x = 0 /\ xf_in.pin_y = 5 * MM
    /\ xf_in.comp = <<100 * MM, 100 * MM>>
    /\ xf_in.angle = 90 /\ xf_in.mirror = "none"
    /\ xf_out = <<95 * MM, 100 * MM>>

----------------------------------------------------------------------------
(* kicad_sch.parse_schematic_expr, on the parsed expression of a document:
   its library symbols, symbol instances, wires, junctions and labels *)

\* parse_component, lines 292-294: comp.pins, a dict from the pin number to
\* the absolute position, in the order the numbers were first set
RECURSIVE ResolvePins(_, _, _, _, _)
ResolvePins(libpins, x, y, angle, mirror) ==
    IF libpins = <<>> THEN <<>>
    ELSE LET before == ResolvePins(SubSeq(libpins, 1, Len(libpins) - 1), x, y, angle, mirror)
             pin == libpins[Len(libpins)]
             pos == transform_pin(pin.x, pin.y, x, y, angle, mirror)
         IN  IF \E k \in 1..Len(before) : before[k].number = pin.number
             THEN [k \in 1..Len(before) |->
                      IF before[k].number = pin.number
                      THEN [number |-> pin.number, pos |-> pos]
                      ELSE before[k]]
             ELSE Append(before, [number |-> pin.number, pos |-> pos])

\* sch.lib_symbols[lib_sym.lib_id] = lib_sym, lines 125-128: the last
\* definition of an id is the one kept
LibIds(libs) == { libs[k].lib_id : k \in 1..Len(libs) }

LibSym(libs, id) ==
    libs[CHOOSE k \in 1..Len(libs) :
            libs[k].lib_id = id /\ \A j \in (k + 1)..Len(libs) : libs[j].lib_id # id]

\* parse_component, line 289
lookup_key(sym, libs) ==
    IF sym.lib_name # <<>> /\ sym.lib_name \in LibIds(libs)
    THEN sym.lib_name
    ELSE sym.lib_id

\* parse_component; lib_key is not a field of Component: it keeps which
\* library symbol the pins were resolved from
parse_component(sym, libs) ==
    LET key == lookup_key(sym, libs)
    IN  [ lib_id |-> sym.lib_id, reference |-> sym.reference, value |-> sym.value,
          footprint |-> sym.footprint, x |-> sym.x, y |-> sym.y,
          angle |-> sym.angle, mirror |-> sym.mirror,
          lib_key |-> IF key \in LibIds(libs) THEN key ELSE <<>>,
          pins |-> IF key \in LibIds(libs)
                   THEN ResolvePins(LibSym(libs, key).pins, sym.x, sym.y,
                                    sym.angle, sym.mirror)
                   ELSE <<>> ]

\* parse_wire, line 350: a wire is kept when it has points
parse_wire(points) == IF points # <<>> THEN <<[points |-> points]>> ELSE <<>>

parse_schematic_expr(d) ==
    [ title |-> d.title,
      lib_symbols |-> d.libs,
      components |-> [k \in 1..Len(d.syms) |-> parse_component(d.syms[k], d.libs)],
      wires |-> Concat([k \in 1..Len(d.wires) |-> parse_wire(d.wires[k])]),
      junctions |-> d.junctions,
      labels |-> d.labels ]

----------------------------------------------------------------------------
(* connectivity.analyze_connectivity *)

\* tolerance = 0.01, the default no caller overrides
Tolerance == 1000

\* points_match, lines 248-250
points_match(p1, p2, tolerance) ==
    Abs(p1[1] - p2[1]) < tolerance /\ Abs(p1[2] - p2[2]) < tolerance

RECURSIVE DedupPoints(_)
\* the keys of a dict keyed by Point, in insertion order: the first of the
\* points that are equal as Points stands for them all
DedupPoints(ps) ==
    IF ps = <<>> THEN <<>>
    ELSE LET d == DedupPoints(SubSeq(ps, 1, Len(ps) - 1))
             p == ps[Len(ps)]
         IN  IF \E k \in 1..Len(d) : PointEq(d[k], p) THEN d ELSE Append(d, p)

\* every (point, wire index) of the wires, in order
WirePoints(wires) ==
    Concat([i \in 1..Len(wires) |->
               [k \in 1..Len(wires[i].points) |-> <<wires[i].points[k], i>>]])

\* lines 48-52: point_to_segments, its keys and the list under a key
PointKeys(wires) ==
    DedupPoints([k \in 1..Len(WirePoints(wires)) |-> WirePoints(wires)[k][1]])

SegmentsAt(wires, key) ==
    LET wp == WirePoints(wires)
        hit == SelectSeq(wp, LAMBDA e : PointEq(e[1], key))
    IN  [k \in 1..Len(hit) |-> hit[k][2]]

\* lines 60-65: the pairs added for the segments that share a point
SharedPointPairs(wires) ==
    LET keys == PointKeys(wires)
    IN  Concat([k \in 1..Len(keys) |->
           LET segs == SegmentsAt(wires, keys[k])
           IN  Concat([a \in 1..Len(segs) |->
                  SelectSeq([b \in 1..Len(segs) |-> <<segs[a], segs[b]>>],
                            LAMBDA pr : pr[1] # pr[2])])])

\* lines 68-77: the pairs added for the wires with two points within tolerance
MatchingPairs(wires, tolerance) ==
    Concat([i \in 1..Len(wires) |->
       Concat([j \in 1..Len(wires) |->
          IF i >= j THEN <<>>
          ELSE Concat([a \in 1..Len(wires[i].points) |->
                  Concat([b \in 1..Len(wires[j].points) |->
                     IF points_match(wires[i].points[a], wires[j].points[b], tolerance)
                     THEN << <<i, j>>, <<j, i>> >>
                     ELSE <<>>])])])])

\* segment_adj as the sequence of its insertions (key, neighbour)
segment_adj(wires, tolerance) ==
    SharedPointPairs(wires) \o MatchingPairs(wires, tolerance)

\* lines 92-94: the calls union(i, j), the keys of segment_adj in insertion
\* order and the neighbours of each, a set of small integers, ascending
UnionCalls(adj) ==
    LET keys == Dedup([k \in 1..Len(adj) |-> adj[k][1]])
    IN  Concat([k \in 1..Len(keys) |->
           LET nb == AscendingSeq({ adj[m][2] : m \in { m \in 1..Len(adj) : adj[m][1] = keys[k] } })
           IN  [m \in 1..Len(nb) |-> <<keys[k], nb[m]>>]])

RECURSIVE find(_, _)
\* find, lines 82-85: the root of x
find(par, x) == IF par[x] # x THEN find(par, par[x]) ELSE x

RECURSIVE Compressed(_, _)
\* find, line 84: every node on the way from x to its root is hung on the root
Compressed(par, x) ==
    IF par[x] # x
    THEN [Compressed(par, par[x]) EXCEPT ![x] = find(par, x)]
    ELSE par

\* a mutation of union: the roots are compared but never linked
union_no_link(par, x, y) == Compressed(Compressed(par, x), y)

\* union, lines 87-90
union(par, x, y) ==
    LET px == find(par, x)
        p1 == Compressed(par, x)
        py == find(p1, y)
        p2 == Compressed(p1, y)
    IN  IF px # py THEN [p2 EXCEPT ![px] = py] ELSE p2

RECURSIVE UnionAll(_, _)
UnionAll(par, calls) ==
    IF calls = <<>> THEN par
    ELSE UnionAll(union(par, calls[1][1], calls[1][2]), Tail(calls))

\* lines 97-99: segment_groups, its roots in insertion order
GroupRoots(par) == Dedup([i \in 1..Len(par) |-> find(par, i)])

GroupSegments(par, root) == AscendingSeq({ i \in 1..Len(par) : find(par, i) = root })

\* lines 102-108: group_points, the set of Points of a group (as a sequence:
\* the points in the order of the wires)
GroupPoints(wires, par, root) ==
    LET segs == GroupSegments(par, root)
    IN  DedupPoints(Concat([k \in 1..Len(segs) |-> wires[segs[k]].points]))

\* lines 113-118: the pin names of the library symbol found by lib_id
PinName(s, comp, number) ==
    IF comp.lib_id \in LibIds(s.lib_symbols)
    THEN LET lp == LibSym(s.lib_symbols, comp.lib_id).pins
             at == { k \in 1..Len(lp) : lp[k].number = number }
         IN  IF at = {} THEN <<>>
             ELSE lp[CHOOSE k \in at : \A j \in at : j <= k].name
    ELSE <<>>

\* lines 111-122: every (position, (ref, pin_number, pin_name)) in order
PinEntries(s) ==
    Concat([c \in 1..Len(s.components) |->
       [k \in 1..Len(s.components[c].pins) |->
           [pos |-> s.components[c].pins[k].pos,
            pin |-> << s.components[c].reference, s.components[c].pins[k].number,
                       PinName(s, s.components[c], s.components[c].pins[k].number) >>]]])

PinKeys(s) == DedupPoints([k \in 1..Len(PinEntries(s)) |-> PinEntries(s)[k].pos])

PinsAt(s, key) ==
    LET hit == SelectSeq(PinEntries(s), LAMBDA e : PointEq(e.pos, key))
    IN  [k \in 1..Len(hit) |-> hit[k].pin]

\* lines 125-127: label_positions, the last label set at a key is its name
LabelKeys(s) == DedupPoints([k \in 1..Len(s.labels) |-> s.labels[k].at])

LabelAt(s, key) ==
    LET at == { k \in 1..Len(s.labels) : PointEq(s.labels[k].at, key) }
    IN  s.labels[CHOOSE k \in at : \A j \in at : j <= k].name

\* lines 138-142: the pins found at the points of a group
TouchingPins(s, pts, tolerance) ==
    Concat([p \in 1..Len(pts) |->
       Concat([k \in 1..Len(PinKeys(s)) |->
          IF points_match(pts[p], PinKeys(s)[k], tolerance)
          THEN PinsAt(s, PinKeys(s)[k])
          ELSE <<>>])])

\* lines 145-147: the label names met at the points of a group; net_name is
\* the one met last, and the points of a set come in the order of their hashes
TouchingLabels(s, pts, tolerance) ==
    { LabelAt(s, key) : key \in
        { key \in Range(LabelKeys(s)) :
            \E p \in 1..Len(pts) : points_match(pts[p], key, tolerance) } }

\* line 151: next((c for c in sch.components if c.reference == ref), None)
HasRef(s, ref) == \E k \in 1..Len(s.components) : s.components[k].reference = ref

FirstWithRef(s, ref) ==
    s.components[CHOOSE k \in 1..Len(s.components) :
        /\ s.components[k].reference = ref
        /\ \A j \in 1..(k - 1) : s.components[j].reference # ref]

\* lines 152-153, 161-162, 193-194: the test of a power symbol, by lib_id
IsPowerComp(s, c) ==
    c.lib_id \in LibIds(s.lib_symbols) /\ LibSym(s.lib_symbols, c.lib_id).is_power

\* lines 150-157: the values a power symbol among the pins may give the net
PowerNames(s, pins) ==
    { FirstWithRef(s, pins[k][1]).value :
        k \in { k \in 1..Len(pins) :
                  HasRef(s, pins[k][1]) /\ IsPowerComp(s, FirstWithRef(s, pins[k][1])) } }

\* lines 160-163: the pins of power symbols leave the list
RealPins(s, pins) ==
    SelectSeq(pins, LAMBDA pin :
        ~ \E k \in 1..Len(s.components) :
              s.components[k].reference = pin[1] /\ IsPowerComp(s, s.components[k]))

\* lines 183-187
WireSegments(wires, par, root) ==
    LET segs == GroupSegments(par, root)
    IN  [k \in 1..Len(segs) |-> wires[segs[k]].points]

\* lines 192-194
real_components(s) == SelectSeq(s.components, LAMBDA c : ~IsPowerComp(s, c))

----------------------------------------------------------------------------
(* The documents the analysis is run on *)

\* a coordinate given in hundredths of a millimetre
Mm100(n) == n * 1000

\* bound: most wires of a document of wires
MaxWires == 3

\* bound: most power symbol instances of a document of components
MaxPower == 1

PtA == <<0, 0>>
PtB == <<Mm100(254), 0>>
\* equal to PtB as a Point (the same coordinates once rounded to 4 decimals)
PtB1 == <<Mm100(254) + 4, 0>>
\* not equal to PtB as a Point, but within the tolerance of it
PtB2 == <<Mm100(254) + 600, 0>>
PtC == <<Mm100(508), 0>>
PtD == <<0, Mm100(254)>>
PtE == <<Mm100(254), Mm100(254)>>

\* the (wire (pts ...)) expressions a document of wires is made of; the
\* last two have one point and no point, and parse_wire drops the one
\* without a point
WirePool ==
    { <<PtA, PtB>>, <<PtA, PtB1>>, <<PtA, PtB2>>, <<PtB, PtC>>, <<PtB2, PtC>>,
      <<PtD, PtE>>, <<PtA, PtE>>, <<PtC, PtD>>, <<PtE>>, <<>> }

WireDocs ==
    { [title |-> <<>>, libs |-> <<>>, syms |-> <<>>, wires |-> ws,
       junctions |-> <<>>, labels |-> <<>>] : ws \in SeqsUpTo(WirePool, MaxWires) }

PowerGND == <<"p", "o", "w", "e", "r", ":", "G", "N", "D">>
GND1 == <<"G", "N", "D", "_", "1">>

\* the two pins of the resistor symbol of the Device library
LibR ==
    [ lib_id |-> DeviceR, is_power |-> FALSE,
      pins |-> << [number |-> <<"1">>, name |-> <<"~">>, x |-> 0, y |-> Mm100(381)],
                  [number |-> <<"2">>, name |-> <<"~">>, x |-> 0, y |-> -Mm100(381)] >> ]

\* a power symbol, under the id of the library or under the name of a copy
LibPower(id) ==
    [ lib_id |-> id, is_power |-> TRUE,
      pins |-> << [number |-> <<"1">>, name |-> GND, x |-> 0, y |-> 0] >> ]

LibChoices ==
    { <<LibR, LibPower(PowerGND)>>, <<LibR, LibPower(GND1)>>,
      <<LibR, LibPower(PowerGND), LibPower(GND1)>> }

SymR1 ==
    [ lib_id |-> DeviceR, lib_name |-> <<>>, reference |-> <<"R", "1">>,
      value |-> <<"1", "0", "k">>, footprint |-> <<>>,
      x |-> Mm100(10000), y |-> Mm100(10000), angle |-> 0, mirror |-> "none" ]

SymPower(ref, lib_name, y) ==
    [ lib_id |-> PowerGND, lib_name |-> lib_name, reference |-> ref,
      value |-> GND, footprint |-> <<>>,
      x |-> Mm100(10000), y |-> y, angle |-> 0, mirror |-> "none" ]

PowerInstances ==
    { SymPower(<<"#", "P", "W", "R", "0", "1">>, n, Mm100(11000)) : n \in {<<>>, GND1} }
    \cup { SymPower(<<"#", "P", "W", "R", "0", "2">>, n, Mm100(9000)) : n \in {<<>>, GND1} }

SymChoices ==
    { <<SymR1>> \o ps : ps \in SeqsUpTo(PowerInstances, MaxPower) }
    \cup { ps \o <<SymR1>> : ps \in SeqsUpTo(PowerInstances, MaxPower) }

\* from pin 1 of R1 up, and from pin 2 of R1 down
WireUp == << <<Mm100(10000), Mm100(9619)>>, <<Mm100(10000), Mm100(9000)>> >>
WireDown == << <<Mm100(10000), Mm100(10381)>>, <<Mm100(10000), Mm100(11000)>> >>

WireChoices == { <<>>, <<WireUp>>, <<WireDown>>, <<WireUp, WireDown>> }

LabelChoices ==
    { <<>>, << [name |-> <<"O", "U", "T">>, at |-> <<Mm100(10000), Mm100(9000)>>] >> }

ComponentDocs ==
    { [title |-> <<"t">>, libs |-> ls, syms |-> ss, wires |-> ws,
       junctions |-> <<>>, labels |-> lb] :
        ls \in LibChoices, ss \in SymChoices, ws \in WireChoices, lb \in LabelChoices }

----------------------------------------------------------------------------
(* connectivity.analyze_connectivity: the nets of the clusters *)

\* a mutation of AppendNew: every pin of the merged net is appended
AppendNew_all(have, more) == have \o more

RECURSIVE AppendNew(_, _)
\* lines 202-204: the pins of a merged net that the net does not hold yet
AppendNew(have, more) ==
    IF more = <<>> THEN have
    ELSE AppendNew(IF Head(more) \in Range(have) THEN have ELSE Append(have, Head(more)),
                   Tail(more))

RECURSIVE MergeNets(_)
\* lines 197-209: merged_nets, a dict from the name to the net
MergeNets(ns) ==
    IF ns = <<>> THEN <<>>
    ELSE LET m == MergeNets(SubSeq(ns, 1, Len(ns) - 1))
             net == ns[Len(ns)]
         IN  IF \E k \in 1..Len(m) : m[k].name = net.name
             THEN [k \in 1..Len(m) |->
                     IF m[k].name = net.name
                     THEN [ name |-> m[k].name,
                            pins |-> AppendNew(m[k].pins, net.pins),
                            wires |-> m[k].wires \o net.wires,
                            is_power |-> m[k].is_power \/ net.is_power ]
                     ELSE m[k]]
             ELSE Append(m, net)

\* float(''.join(c for c in name if c.isdigit() or c == '.')), in thousandths;
\* ok is FALSE where float raises: no digit at all, or more than one point
Voltage(name) ==
    LET s == SelectSeq(name, LAMBDA c : c \in Digits \/ c = ".")
        dots == { k \in 1..Len(s) : s[k] = "." }
        dot == IF dots = {} THEN Len(s) + 1 ELSE CHOOSE k \in dots : TRUE
        whole == SubSeq(s, 1, dot - 1)
        frac == SubSeq(s, dot + 1, Len(s))
        frac3 == SubSeq(frac \o <<"0", "0", "0">>, 1, 3)
    IN  IF Cardinality(dots) > 1 \/ Len(s) = Cardinality(dots)
        THEN [ok |-> FALSE, v |-> 0]
        ELSE [ok |-> TRUE, v |-> 1000 * ParseInt(whole) + ParseInt(frac3)]

\* net_sort_key, lines 212-237: the key, each of its three parts as a field
net_sort_key(net) ==
    LET name == net.name
        key(class, number) == << <<class>>, <<number>>, Codes(name) >>
    IN  IF net.is_power
        THEN IF StartsWith(name, <<"+">>)
             THEN IF Voltage(name).ok THEN key(0, -Voltage(name).v) ELSE key(0, 0)
             ELSE IF StartsWith(name, <<"G", "N", "D">>) THEN key(1, 0)
             ELSE IF StartsWith(name, <<"-">>)
             THEN IF Voltage(name).ok THEN key(2, Voltage(name).v) ELSE key(2, 0)
             ELSE key(0, 0)
        ELSE IF StartsWith(name, <<"N">>) /\ IsDigits(Tail(name))
        THEN key(4, 1000 * ParseInt(Tail(name)))
        ELSE key(3, 0)

\* line 243: the key of a pin
PinKey(p) ==
    << Codes(p[1]), <<IF IsDigits(p[2]) THEN ParseInt(p[2]) ELSE 0>>, Codes(p[3]) >>

\* lines 196-245: the nets merged and sorted, the pins of each sorted
FinishNetlist(s, ns) ==
    LET merged == MergeNets(ns)
        sorted == SortByKey(merged, [k \in 1..Len(merged) |-> net_sort_key(merged[k])])
    IN  [ nets |-> [k \in 1..Len(sorted) |->
                      [sorted[k] EXCEPT !.pins =
                          SortByKey(sorted[k].pins,
                                    [p \in 1..Len(sorted[k].pins) |-> PinKey(sorted[k].pins[p])])]],
          components |-> real_components(s) ]

----------------------------------------------------------------------------
(* Claims about analyze_connectivity *)

\* two wires have a point within tolerance of each other
WiresTouch(wires, i, j) ==
    \E a \in 1..Len(wires[i].points), b \in 1..Len(wires[j].points) :
        /\ Abs(wires[i].points[a][1] - wires[j].points[b][1]) < Tolerance
        /\ Abs(wires[i].points[a][2] - wires[j].points[b][2]) < Tolerance

RECURSIVE ChainFrom(_, _)
\* the wires a chain of touching wires leads to from the wires of S
ChainFrom(wires, S) ==
    LET T == S \cup { j \in 1..Len(wires) :
                        \E i \in S : i # j /\ (WiresTouch(wires, i, j) \/ WiresTouch(wires, j, i)) }
    IN  IF T = S THEN S ELSE ChainFrom(wires, T)

Clustered == cn_pc \in {"nets", "done"}

ThreeWires == << [points |-> <<PtA, PtB>>], [points |-> <<PtB, PtC>>],
                 [points |-> <<PtD, PtE>>] >>

\* C9: two wires are in the same cluster exactly when a chain of wires, each
\* with a point within tolerance of the next, links them; the wires A-B, B-C
\* and D-E form exactly two clusters.
C9_ClustersAreChains ==
    Clustered =>
        /\ Len(parent) = Len(sch.wires)
        /\ \A i, j \in 1..Len(sch.wires) :
              (find(parent, i) = find(parent, j)) <=> (j \in ChainFrom(sch.wires, {i}))
        /\ sch.wires = ThreeWires => Len(GroupRoots(parent)) = 2

\* C9, its case: the three wires A-B, B-C and D-E have been clustered, the
\* first two together and the third apart
C9_Witness ==
    /\ Clustered /\ sch.wires = ThreeWires
    /\ find(parent, 1) = find(parent, 2) /\ find(parent, 3) # find(parent, 1)

\* the library symbol the pins of a component were resolved from is a power
\* symbol
ResolvedFromPower(s, c) ==
    c.lib_key # <<>> /\ LibSym(s.lib_symbols, c.lib_key).is_power

\* C3: no pin of a power symbol instance is in a net of the netlist, and no
\* power symbol instance is among its components.
C3_NoPowerInNetlist ==
    (cn_pc = "done" /\ rt_pass = 1) =>
        /\ \A k \in 1..Len(netlist.components) :
              ~ResolvedFromPower(sch, netlist.components[k])
        /\ \A n \in 1..Len(netlist.nets) : \A p \in 1..Len(netlist.nets[n].pins) :
              ~ \E k \in 1..Len(sch.components) :
                    /\ sch.components[k].reference = netlist.nets[n].pins[p][1]
                    /\ ResolvedFromPower(sch, sch.components[k])

\* C12: after parse_schematic_expr no wire of the schematic has fewer than
\* 2 points: parse_wire drops the wires without a point and the wires of a
\* single point.
C12_NoShortWires ==
    cn_pc \notin {"idle", "parse"} =>
        \A k \in 1..Len(sch.wires) : Len(sch.wires[k].points) >= 2

----------------------------------------------------------------------------
(* tokn_encoder.encode_tokn *)

\* a number to the nearest multiple of m, a tie to the even multiple
RoundTo(v, m) ==
    LET q == v \div m
        r == v % m
    IN  IF 2 * r < m THEN q * m
        ELSE IF 2 * r > m THEN (q + 1) * m
        ELSE IF q % 2 = 0 THEN q * m ELSE (q + 1) * m

\* f'{v:.2f}'
Fmt2(v) ==
    LET h == Abs(RoundTo(v, 1000)) \div 1000
        frac == h % 100
    IN  (IF v < 0 THEN <<"-">> ELSE <<>>) \o IntStr(h \div 100) \o <<".">>
        \o IntStr(frac \div 10) \o IntStr(frac % 10)

\* f'{angle:.0f}' of an angle that is a whole number of degrees
Fmt0(a) == (IF a < 0 THEN <<"-">> ELSE <<>>) \o IntStr(Abs(a))

\* the position of the first c in s, or 0
IndexOf(s, c) ==
    IF \E k \in 1..Len(s) : s[k] = c
    THEN CHOOSE k \in 1..Len(s) : s[k] = c /\ \A j \in 1..(k - 1) : s[j] # c
    ELSE 0

\* TYPE_NORMALIZATION, lines 13-64: its entries for the symbols of the Device
\* library that the documents use
TYPE_NORMALIZATION ==
    { << DeviceR, <<"R">> >>, << DeviceC, <<"C">> >> }

\* normalize_type, lines 79-97; the part names of the documents end in none
\* of the package suffixes line 95 strips
normalize_type(lib_id) ==
    IF \E e \in TYPE_NORMALIZATION : e[1] = lib_id
    THEN (CHOOSE e \in TYPE_NORMALIZATION : e[1] = lib_id)[2]
    ELSE IF IndexOf(lib_id, ":") > 0
    THEN SubSeq(lib_id, IndexOf(lib_id, ":") + 1, Len(lib_id))
    ELSE lib_id

\* FOOTPRINT_SHORTHAND, lines 67-76
FOOTPRINT_SHORTHAND ==
    { << <<"R", "e", "s", "i", "s", "t", "o", "r", "_", "S", "M", "D", ":", "R", "_", "0", "4", "0", "2", "_", "1", "0", "0", "5", "M", "e", "t", "r", "i", "c">>, <<"0", "4", "0", "2">> >>,
      << <<"R", "e", "s", "i", "s", "t", "o", "r", "_", "S", "M", "D", ":", "R", "_", "0", "6", "0", "3", "_", "1", "6", "0", "8", "M", "e", "t", "r", "i", "c">>, <<"0", "6", "0", "3">> >>,
      << <<"R", "e", "s", "i", "s", "t", "o", "r", "_", "S", "M", "D", ":", "R", "_", "0", "8", "0", "5", "_", "2", "0", "1", "2", "M", "e", "t", "r", "i", "c">>, <<"0", "8", "0", "5">> >>,
      << <<"R", "e", "s", "i", "s", "t", "o", "r", "_", "S", "M", "D", ":", "R", "_", "1", "2", "0", "6", "_", "3", "2", "1", "6", "M", "e", "t", "r", "i", "c">>, <<"1", "2", "0", "6">> >>,
      << <<"C", "a", "p", "a", "c", "i", "t", "o", "r", "_", "S", "M", "D", ":", "C", "_", "0", "4", "0", "2", "_", "1", "0", "0", "5", "M", "e", "t", "r", "i", "c">>, <<"0", "4", "0", "2">> >>,
      << <<"C", "a", "p", "a", "c", "i", "t", "o", "r", "_", "S", "M", "D", ":", "C", "_", "0", "6", "0", "3", "_", "1", "6", "0", "8", "M", "e", "t", "r", "i", "c">>, <<"0", "6", "0", "3">> >>,
      << <<"C", "a", "p", "a", "c", "i", "t", "o", "r", "_", "S", "M", "D", ":", "C", "_", "0", "8", "0", "5", "_", "2", "0", "1", "2", "M", "e", "t", "r", "i", "c">>, <<"0", "8", "0", "5">> >>,
      << <<"C", "a", "p", "a", "c", "i", "t", "o", "r", "_", "S", "M", "D", ":", "C", "_", "1", "2", "0", "6", "_", "3", "2", "1", "6", "M", "e", "t", "r", "i", "c">>, <<"1", "2", "0", "6">> >> }

\* the digits a text starts with
LeadingDigits(s) ==
    SubSeq(s, 1, CHOOSE n \in 0..Len(s) :
                    /\ \A k \in 1..n : s[k] \in Digits
                    /\ (n = Len(s) \/ s[n + 1] \notin Digits))

\* line 115, the first group of the pattern: the names of the packages in
\* the order of the alternatives, the last of them TO- and its digits
PackageNames ==
    << <<"S", "O", "I", "C">>, <<"T", "S", "S", "O", "P">>, <<"S", "S", "O", "P">>, <<"Q", "F", "P">>, <<"L", "Q", "F", "P">>, <<"T", "Q", "F", "P">>, <<"B", "G", "A">>, <<"Q", "F", "N">>,
       <<"D", "F", "N">> >>

PackageOf(s) ==
    IF \E k \in 1..Len(PackageNames) : StartsWith(s, PackageNames[k])
    THEN PackageNames[CHOOSE k \in 1..Len(PackageNames) :
                        /\ StartsWith(s, PackageNames[k])
                        /\ \A j \in 1..(k - 1) : ~StartsWith(s, PackageNames[j])]
    ELSE IF StartsWith(s, <<"T", "O", "-">>) /\ LeadingDigits(SubSeq(s, 4, Len(s))) # <<>>
    THEN <<"T", "O", "-">> \o LeadingDigits(SubSeq(s, 4, Len(s)))
    ELSE <<>>

\* lines 115-121: re.match of the pattern at the start of the name, the
\* package, an optional - or _ and the optional digits of the pins
PackagePattern(s) ==
    LET pkg == PackageOf(s)
        rest == SubSeq(s, Len(pkg) + 1, Len(s))
        after == IF rest # <<>> /\ rest[1] \in {"-", "_"} THEN Tail(rest) ELSE rest
        pins == LeadingDigits(after)
    IN  IF pkg = <<>> THEN <<>>
        ELSE IF pins # <<>> THEN pkg \o <<"-">> \o pins
        ELSE pkg

\* line 111: footprint.split(':')[-1]
AfterLastColon(footprint) ==
    IF \E k \in 1..Len(footprint) : footprint[k] = ":"
    THEN LET last == CHOOSE k \in 1..Len(footprint) :
                        footprint[k] = ":" /\ \A j \in (k + 1)..Len(footprint) : footprint[j] # ":"
         IN  SubSeq(footprint, last + 1, Len(footprint))
    ELSE footprint

\* normalize_footprint, lines 100-123
normalize_footprint(footprint) ==
    IF footprint = <<>> THEN <<>>
    ELSE IF \E e \in FOOTPRINT_SHORTHAND : e[1] = footprint
    THEN (CHOOSE e \in FOOTPRINT_SHORTHAND : e[1] = footprint)[2]
    ELSE IF PackagePattern(AfterLastColon(footprint)) # <<>>
    THEN PackagePattern(AfterLastColon(footprint))
    ELSE AfterLastColon(footprint)

\* re.search(r'\d+', reference): the first run of digits, as a number, or 0
FirstNumber(ref) ==
    LET at == { k \in 1..Len(ref) : ref[k] \in Digits }
    IN  IF at = {} THEN 0
        ELSE LET a == CHOOSE k \in at : \A j \in at : k <= j
                 b == CHOOSE k \in a..Len(ref) :
                        /\ \A j \in a..k : ref[j] \in Digits
                        /\ (k = Len(ref) \/ ref[k + 1] \notin Digits)
             IN  ParseInt(SubSeq(ref, a, b))

\* lines 160-163: the key of a component
ComponentKey(c) ==
    << IF c.reference = <<>> THEN <<>> ELSE <<Ord(c.reference[1])>>,
       <<FirstNumber(c.reference)>> >>

RECURSIVE MinOf(_)
MinOf(s) == IF Len(s) = 1 THEN s[1] ELSE Min2(s[1], MinOf(Tail(s)))

RECURSIVE MaxOf(_)
MaxOf(s) == IF Len(s) = 1 THEN s[1] ELSE Max2(s[1], MaxOf(Tail(s)))

RECURSIVE Join(_, _)
\* sep.join(parts)
Join(parts, sep) ==
    IF parts = <<>> THEN <<>>
    ELSE IF Len(parts) = 1 THEN parts[1]
    ELSE parts[1] \o sep \o Join(Tail(parts), sep)

\* f'NAME[{count}]{{FIELDS}}:'
HeaderLine(name, count, fields) ==
    name \o <<"[">> \o IntStr(count) \o <<"]", "{">> \o fields \o <<"}", ":">>

\* the two spaces a row starts with
Indent(r) == <<" ", " ">> \o r

\* lines 168-194: the row of a component
ComponentRow(comp) ==
    LET xs == [k \in 1..Len(comp.pins) |-> comp.pins[k].pos[1]]
        ys == [k \in 1..Len(comp.pins) |-> comp.pins[k].pos[2]]
        x == IF comp.pins # <<>> THEN (MinOf(xs) + MaxOf(xs)) \div 2 ELSE comp.x
        y == IF comp.pins # <<>> THEN (MinOf(ys) + MaxOf(ys)) \div 2 ELSE comp.y
        w == IF comp.pins # <<>> THEN MaxOf(xs) - MinOf(xs) ELSE 0
        h == IF comp.pins # <<>> THEN MaxOf(ys) - MinOf(ys) ELSE 0
    IN  Indent(Join(<< comp.reference, normalize_type(comp.lib_id),
                        quote_value(comp.value),
                        quote_value(normalize_footprint(comp.footprint)),
                        Fmt2(x), Fmt2(y), Fmt2(w), Fmt2(h), Fmt0(comp.angle) >>,
                     <<",">>))

\* line 201: `for ref, pin in net.pins` unpacks each pin into two names and
\* raises ValueError on a pin that is not a pair
Unpacks(net) == \A k \in 1..Len(net.pins) : Len(net.pins[k]) = 2

\* lines 199-207: the row of a net
NetRow(net) ==
    LET pin_strs == [k \in 1..Len(net.pins) |->
                         net.pins[k][1] \o <<".">> \o net.pins[k][2]]
        joined == Join(pin_strs, <<",">>)
        pins_str == IF Len(pin_strs) > 1 THEN <<DQ>> \o joined \o <<DQ>> ELSE joined
    IN  Indent(quote_value(net.name) \o <<",">> \o pins_str)

\* lines 211-214: all_wires
AllWires(nl) ==
    Concat([n \in 1..Len(nl.nets) |->
               [k \in 1..Len(nl.nets[n].wires) |->
                   [net |-> nl.nets[n].name, points |-> nl.nets[n].wires[k]]]])

\* lines 218-223: the row of a wire
WireRow(w) ==
    Indent(quote_value(w.net) \o <<",", DQ>>
            \o Join([k \in 1..Len(w.points) |->
                        Fmt2(w.points[k][1]) \o <<" ">> \o Fmt2(w.points[k][2])], <<",">>)
            \o <<DQ>>)

\* encode_tokn, lines 149-226: raised, or the lines of the text it joins
encode_tokn(s, nl) ==
    LET components == SortByKey(nl.components,
                          [k \in 1..Len(nl.components) |-> ComponentKey(nl.components[k])])
        head == << <<"#", " ", "T", "O", "K", "N", " ", "v", "1">> >>
                \o (IF s.title # <<>> THEN << <<"t", "i", "t", "l", "e", ":", " ">> \o s.title >> ELSE <<>>)
                \o << <<>> >>
        comps == IF components # <<>>
                 THEN << HeaderLine(<<"c", "o", "m", "p", "o", "n", "e", "n", "t", "s">>, Len(components),
                                    <<"r", "e", "f", ",", "t", "y", "p", "e", ",", "v", "a", "l", "u", "e", ",", "f", "p", ",", "x", ",", "y", ",", "w", ",", "h", ",", "a">>) >>
                      \o [k \in 1..Len(components) |-> ComponentRow(components[k])]
                 ELSE <<>>
        netrows == IF nl.nets # <<>>
                   THEN << HeaderLine(<<"n", "e", "t", "s">>, Len(nl.nets), <<"n", "a", "m", "e", ",", "p", "i", "n", "s">>) >>
                        \o [k \in 1..Len(nl.nets) |-> NetRow(nl.nets[k])]
                   ELSE <<>>
        wires == IF AllWires(nl) # <<>>
                 THEN << HeaderLine(<<"w", "i", "r", "e", "s">>, Len(AllWires(nl)), <<"n", "e", "t", ",", "p", "t", "s">>) >>
                      \o [k \in 1..Len(AllWires(nl)) |-> WireRow(AllWires(nl)[k])]
                 ELSE <<>>
    IN  IF \E k \in 1..Len(nl.nets) : ~Unpacks(nl.nets[k])
        THEN [raised |-> TRUE, lines |-> <<>>]
        ELSE [raised |-> FALSE,
              lines |-> head \o comps \o << <<>> >> \o netrows \o << <<>> >>
                        \o wires \o << <<>> >>]

----------------------------------------------------------------------------
(* tokn_parser.parse_tokn on the lines of a text *)

RECURSIVE Split(_, _)
\* s.split(c)
Split(s, c) ==
    IF IndexOf(s, c) = 0 THEN <<s>>
    ELSE <<SubSeq(s, 1, IndexOf(s, c) - 1)>>
         \o Split(SubSeq(s, IndexOf(s, c) + 1, Len(s)), c)

RECURSIVE LStrip(_)
LStrip(s) == IF s # <<>> /\ Head(s) \in Whitespace THEN LStrip(Tail(s)) ELSE s

RECURSIVE RStrip(_)
RStrip(s) ==
    IF s # <<>> /\ s[Len(s)] \in Whitespace THEN RStrip(SubSeq(s, 1, Len(s) - 1)) ELSE s

\* s.strip()
Strip(s) == LStrip(RStrip(s))

\* s.split(): the words between the runs of spaces
Words(s) == SelectSeq(Split(s, " "), LAMBDA w : w # <<>>)

\* how many digits s starts with
DigitsAt(s) ==
    IF s # <<>> /\ \A k \in 1..Len(s) : s[k] \in Digits THEN Len(s)
    ELSE IF s = <<>> \/ s[1] \notin Digits THEN 0
    ELSE (CHOOSE k \in 1..Len(s) : s[k] \notin Digits /\ \A j \in 1..(k - 1) : s[j] \in Digits) - 1

\* float(s) of a decimal numeral, in coordinate units; ok is FALSE where
\* float raises ValueError (exponents, inf and nan are in none of the texts)
ParseFloat(s0) ==
    LET s == Strip(s0)
        neg == s # <<>> /\ s[1] = "-"
        u == IF s # <<>> /\ s[1] \in {"-", "+"} THEN Tail(s) ELSE s
        n == DigitsAt(u)
        rest == SubSeq(u, n + 1, Len(u))
        frac == IF rest # <<>> /\ rest[1] = "." THEN Tail(rest) ELSE <<>>
        ok == /\ (rest = <<>> \/ rest[1] = ".")
              /\ DigitsAt(frac) = Len(frac)
              /\ n + Len(frac) > 0
        frac5 == SubSeq(frac \o <<"0", "0", "0", "0", "0">>, 1, 5)
        v == MM * ParseInt(SubSeq(u, 1, n)) + ParseInt(frac5)
    IN  IF ok THEN [ok |-> TRUE, v |-> IF neg THEN -v ELSE v]
        ELSE [ok |-> FALSE, v |-> 0]

\* re.match(r'NAME\[(\d+)\]\{([^}]+)\}:', line)
MatchCounted(line, name) ==
    LET a == SubSeq(line, Len(name) + 2, Len(line))
        n == DigitsAt(a)
        b == SubSeq(a, n + 1, Len(a))
        close == IndexOf(b, "}")
    IN  IF /\ StartsWith(line, name \o <<"[">>)
           /\ n > 0
           /\ StartsWith(b, <<"]", "{">>)
           /\ close > 3
           /\ StartsWith(SubSeq(b, close, Len(b)), <<"}", ":">>)
        THEN [ok |-> TRUE, count |-> ParseInt(SubSeq(a, 1, n))]
        ELSE [ok |-> FALSE, count |-> 0]

\* re.match(r'pins\{([^}]+)\}\[(\d+)\]:', line)
MatchPins(line) ==
    LET a == SubSeq(line, 6, Len(line))
        close == IndexOf(a, "}")
        b == SubSeq(a, close + 2, Len(a))
        n == DigitsAt(b)
    IN  IF /\ StartsWith(line, <<"p", "i", "n", "s", "{">>)
           /\ close > 1
           /\ StartsWith(SubSeq(a, close, Len(a)), <<"}", "[">>)
           /\ n > 0
           /\ StartsWith(SubSeq(b, n + 1, Len(b)), <<"]", ":">>)
        THEN [ok |-> TRUE, count |-> ParseInt(SubSeq(b, 1, n)),
              ref |-> SubSeq(a, 1, close - 1)]
        ELSE [ok |-> FALSE, count |-> 0, ref |-> <<>>]

\* line 113: re.match(r'(pins|nets|wires|components)\{?', row)
StartsSectionText(r) ==
    \/ StartsWith(r, <<"p", "i", "n", "s">>) \/ StartsWith(r, <<"n", "e", "t", "s">>)
    \/ StartsWith(r, <<"w", "i", "r", "e", "s">>) \/ StartsWith(r, <<"c", "o", "m", "p", "o", "n", "e", "n", "t", "s">>)

SecComponents == <<"c", "o", "m", "p", "o", "n", "e", "n", "t", "s">>
SecPins == <<"p", "i", "n", "s">>
SecNets == <<"n", "e", "t", "s">>
SecWires == <<"w", "i", "r", "e", "s">>

\* the section a line is the header of, by the order of the tests of the
\* main loop (lines 70, 100, 123, 143), or the empty name
SectionOf(line) ==
    IF MatchCounted(line, SecComponents).ok THEN SecComponents
    ELSE IF MatchPins(line).ok THEN SecPins
    ELSE IF MatchCounted(line, SecNets).ok THEN SecNets
    ELSE IF MatchCounted(line, SecWires).ok THEN SecWires
    ELSE <<>>

CountOf(line, sec) ==
    IF sec = SecPins THEN MatchPins(line).count ELSE MatchCounted(line, sec).count

\* parse_pins, lines 187-195
parse_pins(pins_str) ==
    LET parts == Split(pins_str, ",")
        pins == [k \in 1..Len(parts) |-> Strip(parts[k])]
        dotted == SelectSeq(pins, LAMBDA p : IndexOf(p, ".") > 0)
        LastDot(p) == CHOOSE k \in 1..Len(p) :
                         p[k] = "." /\ \A j \in (k + 1)..Len(p) : p[j] # "."
    IN  [k \in 1..Len(dotted) |->
            << SubSeq(dotted[k], 1, LastDot(dotted[k]) - 1),
               SubSeq(dotted[k], LastDot(dotted[k]) + 1, Len(dotted[k])) >>]

\* lines 205-210: the two floats of the words of a point, when they parse
PointOf(ws) ==
    IF Len(ws) >= 2 THEN <<ParseFloat(ws[1]), ParseFloat(ws[2])>> ELSE <<>>

\* parse_points, lines 198-212
parse_points(pts_str) ==
    LET parts == Split(pts_str, ",")
        pts == [k \in 1..Len(parts) |->
                   IF IndexOf(Strip(parts[k]), " ") > 0
                   THEN PointOf(Words(Strip(parts[k]))) ELSE <<>>]
        good == SelectSeq(pts, LAMBDA p : p # <<>> /\ p[1].ok /\ p[2].ok)
    IN  [k \in 1..Len(good) |-> << good[k][1].v, good[k][2].v >>]

\* values[k] if len(values) > k else ''
ValueAt(vals, k) == IF Len(vals) >= k THEN vals[k] ELSE <<>>

\* float(v) if v else 0.0
FloatOr0(v) == IF v = <<>> THEN [ok |-> TRUE, v |-> 0] ELSE ParseFloat(v)

NoToknSchematic ==
    [title |-> <<>>, components |-> <<>>, pins |-> <<>>, nets |-> <<>>, wires |-> <<>>,
     raised |-> FALSE]

\* lines 82-95: the component of a row; raised when a float() raises
AddComponent(ts, vals, nums) ==
    IF \E k \in 5..9 : ~nums[k].ok THEN [ts EXCEPT !.raised = TRUE]
    ELSE [ts EXCEPT !.components = Append(@,
             [ ref |-> ValueAt(vals, 1), type |-> ValueAt(vals, 2),
               value |-> ValueAt(vals, 3), footprint |-> ValueAt(vals, 4),
               x |-> nums[5].v, y |-> nums[6].v, w |-> nums[7].v,
               h |-> nums[8].v, a |-> nums[9].v ])]

\* lines 82-95, 134-139, 154-159: what the values of a row add to the
\* schematic
AddValues(ts, sec, vals) ==
    IF sec = SecComponents
    THEN AddComponent(ts, vals, [k \in 5..9 |-> FloatOr0(ValueAt(vals, k))])
    ELSE IF sec = SecNets
    THEN [ts EXCEPT !.nets = Append(@,
             [name |-> ValueAt(vals, 1), pins |-> parse_pins(ValueAt(vals, 2))])]
    ELSE IF sec = SecWires
    THEN [ts EXCEPT !.wires = Append(@,
             [net |-> ValueAt(vals, 1), points |-> parse_points(ValueAt(vals, 2))])]
    ELSE ts

\* lines 115-118: the pin of a row of a pins section
AddPin(st, vals) ==
    IF Len(vals) >= 2
    THEN [st EXCEPT !.pins = Append(@, [num |-> vals[1], name |-> vals[2]])]
    ELSE st

\* one pass of the loop of a section on the stripped row r: the state after
\* it, stop set when the loop breaks (line 113)
RowStep(sec, st, r) ==
    IF r = <<>> \/ r[1] = "#" THEN st
    ELSE IF sec = SecPins
    THEN IF StartsSectionText(r) THEN [st EXCEPT !.stop = TRUE, !.i = @ - 1]
         ELSE AddPin(st, parse_csv_row(r))
    ELSE [st EXCEPT !.ts = AddValues(@, sec, parse_csv_row(r))]

RECURSIVE RowsFrom(_, _, _, _, _)
\* the loop `for _ in range(count)` of a section from line i on, with left
\* passes to go: the index it stops at, the schematic, the pins of a pins
\* section
RowsFrom(ls, i, left, sec, st) ==
    IF left = 0 \/ i > Len(ls) \/ st.ts.raised \/ st.stop THEN st
    ELSE RowsFrom(ls, i + 1, left - 1, sec,
                  RowStep(sec, [st EXCEPT !.i = i + 1], Strip(ls[i])))

\* sch.pins[ref] = pins_list: a key the dict has keeps its place
SetPins(pins, ref, pin_rows) ==
    IF \E k \in 1..Len(pins) : pins[k].ref = ref
    THEN [k \in 1..Len(pins) |->
             IF pins[k].ref = ref THEN [ref |-> ref, pins |-> pin_rows] ELSE pins[k]]
    ELSE Append(pins, [ref |-> ref, pins |-> pin_rows])

\* lines 119-121: a pins section sets the pins of its component
EndSection(line, sec, st) ==
    IF sec = SecPins
    THEN [st.ts EXCEPT !.pins = SetPins(@, MatchPins(line).ref, st.pins)]
    ELSE st.ts

RECURSIVE MainFrom(_, _, _)
\* the main loop goes on after the rows of a section
AfterRows(ls, line, sec, st) == MainFrom(ls, st.i, EndSection(line, sec, st))

\* lines 70, 100, 123, 143: a header line starts the loop of its section
MainSection(ls, i, ts, line, sec) ==
    IF sec = <<>> THEN MainFrom(ls, i + 1, ts)
    ELSE AfterRows(ls, line, sec,
            RowsFrom(ls, i + 1, CountOf(line, sec), sec,
                     [i |-> i + 1, ts |-> ts, pins |-> <<>>, stop |-> FALSE]))

\* lines 57-163: one pass of the main loop on the stripped line
MainLine(ls, i, ts, line) ==
    IF line = <<>> \/ line[1] = "#" THEN MainFrom(ls, i + 1, ts)
    ELSE IF StartsWith(line, <<"t", "i", "t", "l", "e", ":">>)
    THEN MainFrom(ls, i + 1, [ts EXCEPT !.title = Strip(SubSeq(line, 7, Len(line)))])
    ELSE MainSection(ls, i, ts, line, SectionOf(line))

\* the main loop of parse_tokn from line i on, lines 55-163
MainFrom(ls, i, ts) ==
    IF i > Len(ls) \/ ts.raised THEN ts ELSE MainLine(ls, i, ts, Strip(ls[i]))

RECURSIVE DropBlankEnds(_)
\* text.strip().split('\n') on the lines of the text: no empty line before
\* the first or after the last one that is not (an empty text is one line)
DropBlankEnds(ls) ==
    IF ls = <<>> THEN << <<>> >>
    ELSE IF Strip(ls[1]) = <<>> THEN DropBlankEnds(Tail(ls))
    ELSE IF Strip(ls[Len(ls)]) = <<>> THEN DropBlankEnds(SubSeq(ls, 1, Len(ls) - 1))
    ELSE ls

\* parse_tokn, lines 50-165
parse_tokn(ls) == MainFrom(DropBlankEnds(ls), 1, NoToknSchematic)

----------------------------------------------------------------------------
(* tokn_decoder.decode_schematic.  The text it returns is written here as  *)
(* the document it spells: the library symbols, junctions, wires, labels   *)
(* and symbol instances in the order of their lines, each with the seed of *)
(* its uuid and the values its lines are formatted from; the lines that    *)
(* are the same in every text are left out.                                *)

\* make_uuid, lines 109-112: a function of the seed, written as the seed
make_uuid(seed) == seed

\* lookup_footprint, lines 36-106, with the tables of _load_footprints empty
\* (footprints.json is not among the sources, lines 27-32)
lookup_footprint(comp_type, val, footprint_hint) ==
    IF footprint_hint # <<>> /\ IndexOf(footprint_hint, ":") > 0 THEN footprint_hint
    ELSE <<>>

\* get_lib_id, lines 429-436
get_lib_id(comp_type) ==
    IF comp_type = <<"R">> THEN DeviceR
    ELSE IF comp_type = <<"C">> THEN DeviceC
    ELSE <<"t", "o", "k", "n", ":">> \o comp_type

\* comp_map, line 133: the last component of a ref
HasComp(ts, ref) == \E k \in 1..Len(ts.components) : ts.components[k].ref = ref

CompOf(ts, ref) ==
    ts.components[CHOOSE k \in 1..Len(ts.components) :
        /\ ts.components[k].ref = ref
        /\ \A j \in (k + 1)..Len(ts.components) : ts.components[j].ref # ref]

\* net_wire_points, lines 136-139
net_wire_points(ts, name) ==
    Concat([k \in 1..Len(ts.wires) |->
               IF ts.wires[k].net = name THEN ts.wires[k].points ELSE <<>>])

\* line 151, squared and in thousandths: the order of the distances is the
\* order of their squares
Dist2(pt, x, y) ==
    (Abs(pt[1] - x) \div 100) * (Abs(pt[1] - x) \div 100)
    + (Abs(pt[2] - y) \div 100) * (Abs(pt[2] - y) \div 100)

\* lines 148-154: the first of the points closest to the component
BestPoint(pts, comp) ==
    pts[CHOOSE k \in 1..Len(pts) :
        /\ \A j \in 1..Len(pts) : Dist2(pts[k], comp.x, comp.y) <= Dist2(pts[j], comp.x, comp.y)
        /\ \A j \in 1..(k - 1) : Dist2(pts[j], comp.x, comp.y) > Dist2(pts[k], comp.x, comp.y)]

\* lines 142-157: pin_positions, a dict from (ref, pin_num) to a point; a key
\* keeps the place of its first assignment and the value of its last
PinAssignments(ts) ==
    Concat([n \in 1..Len(ts.nets) |->
       Concat([p \in 1..Len(ts.nets[n].pins) |->
          LET ref == ts.nets[n].pins[p][1]
              pts == net_wire_points(ts, ts.nets[n].name)
          IN  IF HasComp(ts, ref) /\ pts # <<>>
              THEN << [key |-> ts.nets[n].pins[p], pt |-> BestPoint(pts, CompOf(ts, ref))] >>
              ELSE <<>>])])

pin_positions(ts) ==
    LET as == PinAssignments(ts)
        keys == Dedup([k \in 1..Len(as) |-> as[k].key])
    IN  [k \in 1..Len(keys) |->
            as[CHOOSE a \in 1..Len(as) :
                  as[a].key = keys[k] /\ \A b \in (a + 1)..Len(as) : as[b].key # keys[k]]]

\* lines 161-167: comp_pins[ref], the pins (pin_num, rel_x, rel_y) of a ref
comp_pins(ts, positions, ref) ==
    LET mine == SelectSeq(positions, LAMBDA e : e.key[1] = ref)
        comp == CompOf(ts, ref)
    IN  [k \in 1..Len(mine) |->
            << mine[k].key[2], mine[k].pt[1] - comp.x, mine[k].pt[2] - comp.y >>]

\* (round(pt[0], 2), round(pt[1], 2))
Round2(pt) == <<RoundTo(pt[1], 1000), RoundTo(pt[2], 1000)>>

\* lines 170-174, 203-207: the rounded points of some wires, as the keys of a
\* dict in insertion order, and the count of a key
RoundedPoints(ws) ==
    Concat([k \in 1..Len(ws) |-> [p \in 1..Len(ws[k].points) |-> Round2(ws[k].points[p])]])

PointCount(rounded, key) ==
    Cardinality({ k \in 1..Len(rounded) : rounded[k] = key })

\* line 175
junctions(ts) ==
    LET rounded == RoundedPoints(ts.wires)
    IN  SelectSeq(Dedup(rounded), LAMBDA pt : PointCount(rounded, pt) >= 3)

\* line 178
power_nets ==
    { <<"G", "N", "D">>, <<"+", "5", "V">>, <<"+", "3", "V", "3">>, <<"+", "3", ".", "3", "V">>, <<"+", "5", "V", "D">>, <<"+", "1", "2", "V">>, <<"+", "2", "4", "V">>,
      <<"V", "C", "C">>, <<"V", "D", "D">>, <<"V", "S", "S">> }

\* line 182
comp_pin_set(positions) == { Round2(positions[k].pt) : k \in 1..Len(positions) }

\* get_wire_direction_at_point, lines 185-204
get_wire_direction_at_point(ws, px, py) ==
    LET hits == Concat([w \in 1..Len(ws) |->
                  LET pts == ws[w].points
                  IN  Concat([i \in 1..Len(pts) |->
                         IF /\ Abs(pts[i][1] - px) < 1000 /\ Abs(pts[i][2] - py) < 1000
                            /\ Len(pts) > 1 /\ (i = 1 \/ i = Len(pts))
                         THEN << IF i = 1 THEN pts[2] ELSE pts[Len(pts) - 1] >>
                         ELSE <<>>])])
        dx == hits[1][1] - px
        dy == hits[1][2] - py
    IN  IF hits = <<>> THEN 0
        ELSE IF Abs(dx) > Abs(dy) THEN (IF dx > 0 THEN 0 ELSE 180)
        ELSE (IF dy > 0 THEN 90 ELSE 270)

\* lines 210-218, 227-235: the terminal points of the wires of a net that are
\* at no pin of a component, each (name, x, y, direction)
Terminals(ts, pin_set, name) ==
    LET net_wires == SelectSeq(ts.wires, LAMBDA w : w.net = name)
        rounded == RoundedPoints(net_wires)
        ends == SelectSeq(Dedup(rounded), LAMBDA pt :
                    PointCount(rounded, pt) = 1 /\ pt \notin pin_set)
    IN  [k \in 1..Len(ends) |->
            << name, ends[k][1], ends[k][2],
               get_wire_direction_at_point(net_wires, ends[k][1], ends[k][2]) >>]

IsPowerName(name) == name \in power_nets \/ StartsWith(name, <<"+">>)

\* lines 206-218
power_symbols(ts, pin_set) ==
    Concat([n \in 1..Len(ts.nets) |->
               IF IsPowerName(ts.nets[n].name)
               THEN Terminals(ts, pin_set, ts.nets[n].name) ELSE <<>>])

\* lines 221-235
labels_of(ts, pin_set) ==
    Concat([n \in 1..Len(ts.nets) |->
               IF IsPowerName(ts.nets[n].name) \/ StartsWith(ts.nets[n].name, <<"N">>)
               THEN <<>> ELSE Terminals(ts, pin_set, ts.nets[n].name)])

\* emit_resistor_symbol and emit_capacitor_symbol, lines 439-523: the pins
TwoPins ==
    << [number |-> <<"1">>, name |-> <<"~">>, x |-> 0, y |-> Mm100(381)],
       [number |-> <<"2">>, name |-> <<"~">>, x |-> 0, y |-> -Mm100(381)] >>

\* emit_generic_symbol, lines 544-548 and 583-613: the pins, the first
\* position given for a pin number, with y flipped
GenericPins(pins) ==
    LET nums == Dedup([k \in 1..Len(pins) |-> pins[k][1]])
        First(num) == pins[CHOOSE k \in 1..Len(pins) :
                              pins[k][1] = num /\ \A j \in 1..(k - 1) : pins[j][1] # num]
    IN  [k \in 1..Len(nums) |->
            [number |-> nums[k], name |-> <<"~">>,
             x |-> First(nums[k])[2], y |-> -First(nums[k])[3]]]

\* lines 255-275: the library symbols of the components, one for each lib_id
\* in the order of the first component that has it
ComponentSymbols(ts, positions) ==
    LET ids == Dedup([k \in 1..Len(ts.components) |-> get_lib_id(ts.components[k].type)])
        FirstOf(id) == ts.components[CHOOSE k \in 1..Len(ts.components) :
                          /\ get_lib_id(ts.components[k].type) = id
                          /\ \A j \in 1..(k - 1) : get_lib_id(ts.components[j].type) # id]
        all_pins(type) ==
            Concat([k \in 1..Len(ts.components) |->
                       IF ts.components[k].type = type
                       THEN comp_pins(ts, positions, ts.components[k].ref) ELSE <<>>])
    IN  [k \in 1..Len(ids) |->
            LET comp == FirstOf(ids[k])
            IN  IF comp.type = <<"R">> \/ comp.type = <<"C">>
                THEN [lib_id |-> ids[k], is_power |-> FALSE, pins |-> TwoPins,
                      w |-> 0, h |-> 0]
                ELSE [lib_id |-> <<"t", "o", "k", "n", ":">> \o comp.type, is_power |-> FALSE,
                      pins |-> GenericPins(all_pins(comp.type)),
                      w |-> comp.w, h |-> comp.h]]

\* emit_power_symbol, lines 622-676
emit_power_symbol(ptype) ==
    [lib_id |-> <<"p", "o", "w", "e", "r", ":">> \o ptype, is_power |-> TRUE,
     pins |-> << [number |-> <<"1">>, name |-> <<"~">>, x |-> 0, y |-> 0] >>,
     w |-> 0, h |-> 0]

\* lines 278-280: `for ptype in power_types`, a set of str; the order of its
\* members is the order of their hashes, which is the run's (order lists the
\* names as this run's hashes order them)
PowerTypes(symbols, order) ==
    SelectSeq(order, LAMBDA n : \E k \in 1..Len(symbols) : symbols[k][1] = n)

\* lines 285-292
JunctionElements(ts) ==
    LET js == junctions(ts)
    IN  [k \in 1..Len(js) |->
            [at |-> js[k], uuid |-> make_uuid(<<"junction", k - 1, js[k][1], js[k][2]>>)]]

\* a wire of a net that is not among the nets
IsGhostWire(ts, w) == \A n \in 1..Len(ts.nets) : ts.nets[n].name # w.net

\* a mutation of WireElements: only the wires of the nets of the schematic
\* are emitted
WireElements_known_nets(ts) ==
    Concat([i \in 1..Len(ts.wires) |->
       LET pts == ts.wires[i].points
       IN  IF Len(pts) < 2 \/ IsGhostWire(ts, ts.wires[i]) THEN <<>>
           ELSE [j \in 1..(Len(pts) - 1) |->
                    [points |-> <<pts[j], pts[j + 1]>>,
                     uuid |-> make_uuid(<<"wire", i - 1, j - 1, pts[j], pts[j + 1]>>)]]])

\* lines 295-306: a (wire ...) for each two consecutive points of a wire
WireElements(ts) ==
    Concat([i \in 1..Len(ts.wires) |->
       LET pts == ts.wires[i].points
       IN  IF Len(pts) < 2 THEN <<>>
           ELSE [j \in 1..(Len(pts) - 1) |->
                    [points |-> <<pts[j], pts[j + 1]>>,
                     uuid |-> make_uuid(<<"wire", i - 1, j - 1, pts[j], pts[j + 1]>>)]]])

\* lines 309-332
LabelElements(labels) ==
    [k \in 1..Len(labels) |->
        LET l == labels[k]
        IN  [name |-> esc(l[1]), at |-> <<l[2], l[3]>>, angle |-> (l[4] + 180) % 360,
             uuid |-> make_uuid(<<"label", k - 1, l[1], l[2], l[3]>>)]]

\* int(comp.a)
IntOf(a) == IF a >= 0 THEN a \div MM ELSE -((-a) \div MM)

\* lines 335-373
ComponentElements(ts, positions) ==
    [k \in 1..Len(ts.components) |->
        LET comp == ts.components[k]
            pins == comp_pins(ts, positions, comp.ref)
        IN  [lib_id |-> get_lib_id(comp.type), lib_name |-> <<>>,
             x |-> comp.x, y |-> comp.y, angle |-> IntOf(comp.a), mirror |-> "none",
             uuid |-> make_uuid(<<"comp", k - 1, comp.ref>>),
             reference |-> comp.ref, value |-> esc(comp.value),
             footprint |-> esc(lookup_footprint(comp.type, comp.value, comp.footprint)),
             pin_uuids |-> [p \in 1..Len(pins) |-> make_uuid(<<"pin", comp.ref, pins[p][1]>>)]]]

\* f'#PWR{i+1:02d}'
PowerRef(n) == <<"#", "P", "W", "R">> \o (IF n < 10 THEN <<"0">> ELSE <<>>) \o IntStr(n)

\* lines 376-423
PowerElements(symbols) ==
    [k \in 1..Len(symbols) |->
        LET p == symbols[k]
            angle == IF p[4] = 0 THEN 90 ELSE IF p[4] = 180 THEN 270
                     ELSE IF p[4] = 90 THEN 0 ELSE 180
        IN  [lib_id |-> <<"p", "o", "w", "e", "r", ":">> \o p[1], lib_name |-> <<>>,
             x |-> p[2], y |-> p[3], angle |-> angle, mirror |-> "none",
             uuid |-> make_uuid(<<"pwr", k - 1, p[1], p[2], p[3]>>),
             reference |-> PowerRef(k), value |-> p[1], footprint |-> <<>>,
             pin_uuids |-> << make_uuid(<<"pwr_pin", k - 1, p[1]>>) >>]]

\* decode_schematic, lines 128-426
decode_schematic(ts, order) ==
    LET positions == pin_positions(ts)
        pin_set == comp_pin_set(positions)
        symbols == power_symbols(ts, pin_set)
        power_types == PowerTypes(symbols, order)
    IN  [ uuid |-> make_uuid(<<"doc", ts.title>>),
          title |-> esc(ts.title),
          libs |-> ComponentSymbols(ts, positions)
                   \o [k \in 1..Len(power_types) |-> emit_power_symbol(power_types[k])],
          junctions |-> JunctionElements(ts),
          wires |-> WireElements(ts),
          labels |-> LabelElements(labels_of(ts, pin_set)),
          syms |-> ComponentElements(ts, positions) \o PowerElements(symbols) ]

\* the names of power_types: the nets whose power symbols a schematic gets
PowerNamesOf(ts) ==
    LET symbols == power_symbols(ts, comp_pin_set(pin_positions(ts)))
    IN  { symbols[k][1] : k \in 1..Len(symbols) }

----------------------------------------------------------------------------
(* decode_schematic called in two runs of the interpreter *)

\* bound: most nets of a compact schematic given to the decoder
MaxNets == 2

\* bound: most calls of decode_schematic in one run
MaxDecodes == 2

Runs == {1, 2}

\* every order of the members of a finite set
Orders(S) ==
    { o \in [1..Cardinality(S) -> S] : \A i, j \in 1..Cardinality(S) : i # j => o[i] # o[j] }

ToknR(ref, x) ==
    [ref |-> ref, type |-> <<"R">>, value |-> <<"1", "0", "k">>, footprint |-> <<>>,
     x |-> x, y |-> Mm100(10000), w |-> 0, h |-> Mm100(762), a |-> 0]

\* a net on one pin of a resistor with a wire from the pin to a free end
NetPool ==
    { [name |-> <<"+", "5", "V">>, pins |-> << <<<<"R", "1">>, <<"1">>>> >>,
       wire |-> << <<Mm100(10000), Mm100(9619)>>, <<Mm100(10000), Mm100(9000)>> >>],
      [name |-> GND, pins |-> << <<<<"R", "1">>, <<"2">>>> >>,
       wire |-> << <<Mm100(10000), Mm100(10381)>>, <<Mm100(10000), Mm100(11000)>> >>],
      [name |-> <<"V", "C", "C">>, pins |-> << <<<<"R", "2">>, <<"1">>>> >>,
       wire |-> << <<Mm100(12000), Mm100(9619)>>, <<Mm100(12000), Mm100(9000)>> >>],
      [name |-> <<"O", "U", "T">>, pins |-> << <<<<"R", "2">>, <<"2">>>> >>,
       wire |-> << <<Mm100(12000), Mm100(10381)>>, <<Mm100(13000), Mm100(10381)>> >>] }

ToknOf(ns) ==
    [title |-> <<"t">>,
     components |-> << ToknR(<<"R", "1">>, Mm100(10000)), ToknR(<<"R", "2">>, Mm100(12000)) >>,
     pins |-> <<>>,
     nets |-> [k \in 1..Len(ns) |-> [name |-> ns[k].name, pins |-> ns[k].pins]],
     wires |-> [k \in 1..Len(ns) |-> [net |-> ns[k].name, points |-> ns[k].wire]],
     raised |-> FALSE]

DecIdle == tsch = <<>> /\ dc_pc = <<>> /\ hash_order = <<>> /\ dc_out = <<>>

DecStart ==
    /\ tsch \in { ToknOf(ns) : ns \in SeqsUpTo(NetPool, MaxNets) }
    /\ dc_pc = [r \in Runs |-> "off"]
    /\ hash_order = [r \in Runs |-> <<>>]
    /\ dc_out = [r \in Runs |-> <<>>]

\* the start of an interpreter: the hashes of the strings, and with them the
\* order in which a set of strings is gone through, are this run's
StartRun(r) ==
    /\ dc_pc[r] = "off"
    /\ \E o \in Orders(PowerNamesOf(tsch)) : hash_order' = [hash_order EXCEPT ![r] = o]
    /\ dc_pc' = [dc_pc EXCEPT ![r] = "up"]
    /\ UNCHANGED <<tsch, dc_out, decRest>>

\* decode_schematic(sch)
Decode(r) ==
    /\ dc_pc[r] = "up" /\ Len(dc_out[r]) < MaxDecodes
    /\ dc_out' = [dc_out EXCEPT ![r] = Append(@, decode_schematic(tsch, hash_order[r]))]
    /\ UNCHANGED <<tsch, dc_pc, hash_order, decRest>>

NextDec ==
    \/ \E r \in Runs : StartRun(r)
    \/ \E r \in Runs : Decode(r)

\* C2: decoding the same compact schematic twice, in one run or in two,
\* returns the same text, the library definitions of the power symbols in
\* the same order and every uuid the same.
C2_DecodeDeterministic ==
    \A r, s \in Runs : \A i \in 1..Len(dc_out[r]) : \A j \in 1..Len(dc_out[s]) :
        dc_out[r][i] = dc_out[s][j]

----------------------------------------------------------------------------
(* The pipeline of convert_file: parse, analyze, encode *)

NoDoc == [title |-> <<>>, libs |-> <<>>, syms |-> <<>>, wires |-> <<>>,
          junctions |-> <<>>, labels |-> <<>>]
NoSch == [title |-> <<>>, lib_symbols |-> <<>>, components |-> <<>>, wires |-> <<>>,
          junctions |-> <<>>, labels |-> <<>>]
NoNetlist == [nets |-> <<>>, components |-> <<>>]

ConnIdle ==
    /\ doc = NoDoc /\ sch = NoSch /\ cn_pc = "idle" /\ parent = <<>>
    /\ cn_k = 1 /\ nets = <<>> /\ anonymous_counter = 1 /\ netlist = NoNetlist
    /\ tokn_text = <<>> /\ rt_pass = 1 /\ netlist1 = NoNetlist

\* parse_schematic_expr
ParseSchematic ==
    /\ cn_pc = "parse"
    /\ sch' = parse_schematic_expr(doc)
    /\ cn_pc' = "cluster"
    /\ UNCHANGED <<doc, parent, cn_k, nets, anonymous_counter, netlist, tokn_text,
                   rt_pass, netlist1, connRest>>

\* a point lies on a wire: between two successive points of it, on a
\* horizontal or a vertical stretch
OnWire(p, points) ==
    \E k \in 1..(Len(points) - 1) :
        \/ /\ points[k][1] = p[1] /\ points[k + 1][1] = p[1]
           /\ Min2(points[k][2], points[k + 1][2]) <= p[2]
           /\ p[2] <= Max2(points[k][2], points[k + 1][2])
        \/ /\ points[k][2] = p[2] /\ points[k + 1][2] = p[2]
           /\ Min2(points[k][1], points[k + 1][1]) <= p[1]
           /\ p[1] <= Max2(points[k][1], points[k + 1][1])

\* the pairs of wires a junction of the schematic lies on
JunctionPairs(s) ==
    Concat([i \in 1..Len(s.wires) |->
       Concat([j \in 1..Len(s.wires) |->
          IF i # j /\ \E q \in 1..Len(s.junctions) :
                         OnWire(s.junctions[q], s.wires[i].points)
                         /\ OnWire(s.junctions[q], s.wires[j].points)
          THEN << <<i, j>> >>
          ELSE <<>>])])

\* lines 46-99 with the junction points of line 55 used as connection points
Cluster_junctions ==
    /\ cn_pc = "cluster"
    /\ parent' = UnionAll([i \in 1..Len(sch.wires) |-> i],
                          UnionCalls(segment_adj(sch.wires, Tolerance) \o JunctionPairs(sch)))
    /\ cn_pc' = "nets"
    /\ cn_k' = 1
    /\ nets' = <<>>
    /\ anonymous_counter' = 1
    /\ UNCHANGED <<doc, sch, netlist, tokn_text, rt_pass, netlist1, connRest>>

\* analyze_connectivity, lines 46-99: the wires grouped by union-find
Cluster ==
    /\ cn_pc = "cluster"
    /\ parent' = UnionAll([i \in 1..Len(sch.wires) |-> i],
                          UnionCalls(segment_adj(sch.wires, Tolerance)))
    /\ cn_pc' = "nets"
    /\ cn_k' = 1
    /\ nets' = <<>>
    /\ anonymous_counter' = 1
    /\ UNCHANGED <<doc, sch, netlist, tokn_text, rt_pass, netlist1, connRest>>

\* analyze_connectivity, lines 133-189: the net of one group of wires
NetOfGroup ==
    /\ cn_pc = "nets" /\ cn_k <= Len(GroupRoots(parent))
    /\ LET root == GroupRoots(parent)[cn_k]
           points == GroupPoints(sch.wires, parent, root)
           found == TouchingPins(sch, points, Tolerance)
           labelled == TouchingLabels(sch, points, Tolerance)
           powered == PowerNames(sch, found)
           pins == RealPins(sch, found)
       IN  \E label \in (IF labelled = {} THEN {<<>>} ELSE labelled),
              power \in (IF powered = {} THEN {<<>>} ELSE powered) :
             LET named == powered # {} \/ labelled # {}
                 net_name == IF powered # {} THEN power
                             ELSE IF labelled # {} THEN label
                             ELSE <<"N">> \o IntStr(anonymous_counter)
             IN  IF pins = <<>>
                 THEN UNCHANGED <<nets, anonymous_counter>>
                 ELSE /\ nets' = Append(nets,
                            [ name |-> net_name,
                              pins |-> Dedup(pins),
                              wires |-> WireSegments(sch.wires, parent, root),
                              is_power |-> powered # {} ])
                      /\ anonymous_counter' =
                            IF named THEN anonymous_counter ELSE anonymous_counter + 1
    /\ cn_k' = cn_k + 1
    /\ UNCHANGED <<doc, sch, cn_pc, parent, netlist, tokn_text, rt_pass, netlist1,
                   connRest>>

\* analyze_connectivity, lines 191-245
FinishAnalysis ==
    /\ cn_pc = "nets" /\ cn_k > Len(GroupRoots(parent))
    /\ netlist' = FinishNetlist(sch, nets)
    /\ cn_pc' = "done"
    /\ UNCHANGED <<doc, sch, parent, cn_k, nets, anonymous_counter, tokn_text,
                   rt_pass, netlist1, connRest>>

\* convert_file, line 233: the schematic and its netlist encoded
Encode ==
    /\ cn_pc = "done" /\ rt_pass = 1
    /\ LET r == encode_tokn(sch, netlist)
       IN  /\ cn_pc' = IF r.raised THEN "encode_raised" ELSE "encoded"
           /\ tokn_text' = r.lines
    /\ UNCHANGED <<doc, sch, parent, cn_k, nets, anonymous_counter, netlist,
                   rt_pass, netlist1, connRest>>

\* the expression sexpr.parse returns for the text of decode_schematic, as
\* parse_schematic_expr reads it: the strings unescaped (sexpr.py, lines
\* 86-92), the points of the wires, the labels (all global_label)
ReadDecoded(d) ==
    [ title |-> Unescape(d.title),
      libs |-> [k \in 1..Len(d.libs) |->
                  [lib_id |-> d.libs[k].lib_id, is_power |-> d.libs[k].is_power,
                   pins |-> d.libs[k].pins]],
      syms |-> [k \in 1..Len(d.syms) |->
                  [ lib_id |-> d.syms[k].lib_id, lib_name |-> <<>>,
                    reference |-> Unescape(d.syms[k].reference),
                    value |-> Unescape(d.syms[k].value),
                    footprint |-> Unescape(d.syms[k].footprint),
                    x |-> d.syms[k].x, y |-> d.syms[k].y,
                    angle |-> d.syms[k].angle, mirror |-> d.syms[k].mirror ]],
      wires |-> [k \in 1..Len(d.wires) |-> d.wires[k].points],
      junctions |-> [k \in 1..Len(d.junctions) |-> d.junctions[k].at],
      labels |-> [k \in 1..Len(d.labels) |->
                    [name |-> Unescape(d.labels[k].name), at |-> d.labels[k].at]] ]

\* the text of the first pass parsed by parse_tokn
ParseTokn ==
    /\ cn_pc = "encoded"
    /\ tsch' = parse_tokn(tokn_text)
    /\ cn_pc' = IF tsch'.raised THEN "parse_raised" ELSE "decode"
    /\ UNCHANGED <<doc, sch, parent, cn_k, nets, anonymous_counter, netlist, tokn_text,
                   rt_pass, netlist1, xfVars, sexprVars, csvVars, toknVars, dc_pc,
                   hash_order, dc_out, callVars, fnVars>>

\* the schematic decoded by decode_schematic and parsed again, for a second
\* analysis
DecodeBack ==
    /\ cn_pc = "decode"
    /\ \E order \in Orders(PowerNamesOf(tsch)) :
           doc' = ReadDecoded(decode_schematic(tsch, order))
    /\ netlist1' = netlist
    /\ rt_pass' = 2
    /\ cn_pc' = "parse"
    /\ UNCHANGED <<sch, parent, cn_k, nets, anonymous_counter, netlist, tokn_text,
                   connRest>>

ConnStart ==
    /\ doc \in WireDocs \cup ComponentDocs
    /\ sch = NoSch /\ cn_pc = "parse" /\ parent = <<>>
    /\ cn_k = 1 /\ nets = <<>> /\ anonymous_counter = 1 /\ netlist = NoNetlist
    /\ tokn_text = <<>> /\ rt_pass = 1 /\ netlist1 = NoNetlist

NextConn ==
    \/ ParseSchematic
    \/ Cluster
    \/ NetOfGroup
    \/ FinishAnalysis
    \/ Encode
    \/ ParseTokn
    \/ DecodeBack

----------------------------------------------------------------------------
(* encode_tokn on the components of a netlist, and the rows of its text    *)
(* split by parse_csv_row                                                  *)

\* bound: most components of the netlist handed to encode_tokn
MaxEncComponents == 2

EncComponent(ref, lib_id, val, fp) ==
    [ reference |-> ref, lib_id |-> lib_id, value |-> val, footprint |-> fp,
      x |-> Mm100(100), y |-> Mm100(200), angle |-> 0, mirror |-> "none",
      pins |-> <<>> ]

\* the components: resistors and a capacitor with numbers of one and two
\* digits, a trimmer RV1, a reference and a part name with a comma, values
\* that need quotes, and footprints in and out of FOOTPRINT_SHORTHAND
EncPool ==
    { EncComponent(<<"R", "1">>, DeviceR, <<"1", "0", "k">>, <<>>),
      EncComponent(<<"R", "2">>, DeviceR, <<"a", ",", "b">>, <<"R", "e", "s", "i", "s", "t", "o", "r", "_", "S", "M", "D", ":", "R", "_", "0", "6", "0", "3", "_", "1", "6", "0", "8", "M", "e", "t", "r", "i", "c">>),
      EncComponent(<<"R", "1", "0">>, DeviceR, <<"t", "r", "u", "e">>, <<"R", "_", "0", "6", "0", "3">>),
      EncComponent(<<"R", "V", "1">>, DeviceR, <<"1", "0", "k">>, <<"M", "y", "L", "i", "b", ":", "F", "P", "1">>),
      EncComponent(<<"C", "1">>, DeviceC, <<"1", "u">>, <<"P", "a", "c", "k", "a", "g", "e", "_", "S", "O", ":", "S", "O", "I", "C", "-", "8", "_", "3", ".", "9", "x", "4", ".", "9", "m", "m">>),
      EncComponent(<<"U", "1">>, <<"L", "i", "b", ":", "A", ",", "B">>, <<"x">>, <<"L", "Q", "F", "P", "-", "4", "8">>),
      EncComponent(<<"R", ",", "1">>, DeviceR, <<"1", "0", "k">>, <<"x", ",", "y">>) }

FnIdle == fn_pc = "idle" /\ fn_in = <<>> /\ fn_out = <<>>

EncStart ==
    /\ fn_pc = "encode"
    /\ fn_in \in SeqsUpTo(EncPool, MaxEncComponents)
    /\ fn_out = <<>>

\* encode_tokn, lines 149-226, on a netlist without nets: the components in
\* the order of line 160, the footprints line 171 gives them and the lines
\* of the text
EncodeComponents ==
    /\ fn_pc = "encode"
    /\ LET components == SortByKey(fn_in, [k \in 1..Len(fn_in) |-> ComponentKey(fn_in[k])])
       IN  fn_out' = [ components |-> components,
                       fps |-> [k \in 1..Len(components) |->
                                   normalize_footprint(components[k].footprint)],
                       lines |-> encode_tokn(NoSch, [nets |-> <<>>,
                                                     components |-> fn_in]).lines,
                       rows |-> <<>> ]
    /\ fn_pc' = "encoded"
    /\ UNCHANGED <<fn_in, fnRest>>

\* tokn_parser.py, lines 124-126: the rows of the components section, each
\* stripped and split by parse_csv_row
SplitRows ==
    /\ fn_pc = "encoded"
    /\ fn_out' = [fn_out EXCEPT !.rows =
                     [k \in 1..Len(fn_in) |-> parse_csv_row(Strip(fn_out.lines[3 + k]))]]
    /\ fn_pc' = "split"
    /\ UNCHANGED <<fn_in, fnRest>>

NextEnc ==
    \/ EncodeComponents
    \/ SplitRows

\* C21: every row encode_tokn writes for a component splits into exactly
\* the 9 declared fields, and its first four are the reference, the type,
\* the value and the footprint of the component.
C21_RowsOfNineFields ==
    fn_pc = "split" =>
        \A k \in 1..Len(fn_out.rows) :
            /\ Len(fn_out.rows[k]) = 9
            /\ SubSeq(fn_out.rows[k], 1, 4)
                 = << fn_out.components[k].reference,
                      normalize_type(fn_out.components[k].lib_id),
                      fn_out.components[k].value, fn_out.fps[k] >>

\* C22: a footprint that is not empty and is no key of FOOTPRINT_SHORTHAND
\* is written as it is.
C22_UnmappedFootprint ==
    fn_pc \in {"encoded", "split"} =>
        \A k \in 1..Len(fn_out.components) :
            (/\ fn_out.components[k].footprint # <<>>
             /\ \A e \in FOOTPRINT_SHORTHAND : e[1] # fn_out.components[k].footprint)
                => fn_out.fps[k] = fn_out.components[k].footprint

\* what a reference starts with before its first digit, and the number that
\* follows it
LetterPrefix(ref) ==
    SubSeq(ref, 1, CHOOSE n \in 0..Len(ref) :
                      /\ \A k \in 1..n : ref[k] \notin Digits
                      /\ (n = Len(ref) \/ ref[n + 1] \in Digits))

NumberAfterPrefix(ref) ==
    LET digits == LeadingDigits(SubSeq(ref, Len(LetterPrefix(ref)) + 1, Len(ref)))
    IN  IF digits = <<>> THEN 0 ELSE ParseInt(digits)

\* C23: the components are listed by the letters their references start
\* with, compared as strings, and those of the same letters by the number
\* that follows.
C23_ComponentOrder ==
    fn_pc \in {"encoded", "split"} =>
        \A i, j \in 1..Len(fn_out.components) :
            i < j =>
                KeyLessEq(<< Codes(LetterPrefix(fn_out.components[i].reference)),
                             <<NumberAfterPrefix(fn_out.components[i].reference)>> >>,
                          << Codes(LetterPrefix(fn_out.components[j].reference)),
                             <<NumberAfterPrefix(fn_out.components[j].reference)>> >>)

----------------------------------------------------------------------------
(* Calls of analyze_connectivity in flight together: each call has a frame *)
(* with its own locals                                                     *)

\* bound: most calls of analyze_connectivity one caller makes, one after
\* the other
MaxCalls == 2

\* the callers, each on documents of its own
Callers == {1, 2}

\* the documents of the calls: R1 with a wire from pin 2 down, with or
\* without a wire from pin 1 up, a label at the end of that wire and a
\* ground symbol at the end of the wire from pin 2
CallDocs ==
    { [title |-> <<"t">>, libs |-> <<LibR, LibPower(PowerGND)>>, syms |-> ss,
       wires |-> ws, junctions |-> <<>>, labels |-> lb] :
        ss \in { <<SymR1>>,
                 <<SymR1, SymPower(<<"#", "P", "W", "R", "0", "1">>, <<>>,
                                   Mm100(11000))>> },
        ws \in { <<WireDown>>, <<WireUp, WireDown>> },
        lb \in LabelChoices }

\* lines 46-131 on one schematic: the locals of the call at the head of the
\* loop over the clusters
Entered(f, s, counter) ==
    [ pc |-> "nets", sch |-> s,
      parent |-> UnionAll([i \in 1..Len(s.wires) |-> i],
                          UnionCalls(segment_adj(s.wires, Tolerance))),
      k |-> 1, nets |-> <<>>, anonymous_counter |-> counter,
      unnamed |-> <<>>, netlist |-> NoNetlist, ran |-> f.ran ]

NoFrame ==
    [ pc |-> "off", sch |-> NoSch, parent |-> <<>>, k |-> 1, nets |-> <<>>,
      anonymous_counter |-> 1, unnamed |-> <<>>, netlist |-> NoNetlist, ran |-> 0 ]

CallIdle == frames = <<>>

CallStart == frames = [c \in Callers |-> NoFrame]

\* a mutation of EntryCounter: the counter goes on from where the caller's
\* last call left it
EntryCounter_kept(f) == f.anonymous_counter

\* line 131: anonymous_counter = 1, a local of the call
EntryCounter(f) == 1

\* lines 46-131: the call is entered, the wires are clustered and the locals
\* of the loop over the clusters are set
EnterAnalysis(c) ==
    /\ frames[c].pc \in {"off", "done"} /\ frames[c].ran < MaxCalls
    /\ \E d \in CallDocs :
          frames' = [frames EXCEPT ![c] =
              Entered(frames[c], parse_schematic_expr(d), EntryCounter(frames[c]))]
    /\ UNCHANGED callRest

\* lines 133-189: the net of one cluster; unnamed lists the nets that got a
\* generated name, by their place in nets
AnalyzeGroup(c) ==
    /\ frames[c].pc = "nets" /\ frames[c].k <= Len(GroupRoots(frames[c].parent))
    /\ LET f == frames[c]
           root == GroupRoots(f.parent)[f.k]
           points == GroupPoints(f.sch.wires, f.parent, root)
           found == TouchingPins(f.sch, points, Tolerance)
           labelled == TouchingLabels(f.sch, points, Tolerance)
           powered == PowerNames(f.sch, found)
           pins == RealPins(f.sch, found)
       IN  \E label \in (IF labelled = {} THEN {<<>>} ELSE labelled),
              power \in (IF powered = {} THEN {<<>>} ELSE powered) :
             LET named == powered # {} \/ labelled # {}
                 net_name == IF powered # {} THEN power
                             ELSE IF labelled # {} THEN label
                             ELSE <<"N">> \o IntStr(f.anonymous_counter)
             IN  frames' = [frames EXCEPT ![c] =
                    IF pins = <<>> THEN [f EXCEPT !.k = f.k + 1]
                    ELSE [f EXCEPT
                            !.k = f.k + 1,
                            !.nets = Append(f.nets,
                               [ name |-> net_name,
                                 pins |-> Dedup(pins),
                                 wires |-> WireSegments(f.sch.wires, f.parent, root),
                                 is_power |-> powered # {} ]),
                            !.anonymous_counter =
                               IF named THEN f.anonymous_counter
                               ELSE f.anonymous_counter + 1,
                            !.unnamed = IF named THEN f.unnamed
                                        ELSE Append(f.unnamed, Len(f.nets) + 1) ]]
    /\ UNCHANGED callRest

\* lines 191-245: the netlist is returned
ReturnNetlist(c) ==
    /\ frames[c].pc = "nets" /\ frames[c].k > Len(GroupRoots(frames[c].parent))
    /\ frames' = [frames EXCEPT ![c] =
          [@ EXCEPT !.pc = "done", !.ran = @ + 1,
                    !.netlist = FinishNetlist(frames[c].sch, frames[c].nets)]]
    /\ UNCHANGED callRest

NextCall ==
    \/ \E c \in Callers : EnterAnalysis(c)
    \/ \E c \in Callers : AnalyzeGroup(c)
    \/ \E c \in Callers : ReturnNetlist(c)

\* C13: in every call the unnamed clusters that keep a pin are named N1,
\* N2, ... from 1 on in the order of the clusters, whatever calls ran
\* before it and whatever calls are in flight with it.
C13_AnonymousNumbering ==
    \A c \in DOMAIN frames :
        \A i \in 1..Len(frames[c].unnamed) :
            frames[c].nets[frames[c].unnamed[i]].name = <<"N">> \o IntStr(i)

\* C13, its case: a caller is in its second call and has named two nets in
\* it, while the call of the other caller is under way with a net named
C13_Witness ==
    /\ frames # <<>>
    /\ \E c, d \in Callers :
          /\ c # d
          /\ frames[c].ran = 1 /\ frames[c].pc = "nets" /\ Len(frames[c].unnamed) = 2
          /\ frames[d].pc = "nets" /\ Len(frames[d].unnamed) >= 1

\* ---------------------------------------------------------------------
\* lookup_footprint with the tables footprints.json supplies
\* ---------------------------------------------------------------------

\* a table of the footprint data: its entries <<key, footprint>> in the order
\* of the file, no key twice
HasKey(table, key) == \E k \in 1..Len(table) : table[k][1] = key

ValueOf(table, key) == table[CHOOSE k \in 1..Len(table) : table[k][1] = key][2]

\* _load_footprints, lines 27-32, when footprints.json is absent
NoFootprintData == [passives |-> <<>>, packages |-> <<>>, parts |-> <<>>]

\* lines 57-69: the library and name a size suffix is appended to
SizeFamilyPrefix(comp_type) ==
    CASE comp_type = <<"R">> -> <<"R", "e", "s", "i", "s", "t", "o", "r", "_", "S", "M", "D", ":", "R">>
      [] comp_type = <<"C">> -> <<"C", "a", "p", "a", "c", "i", "t", "o", "r", "_", "S", "M", "D", ":", "C">>
      [] comp_type \in {<<"L">>, <<"F", "B">>} -> <<"I", "n", "d", "u", "c", "t", "o", "r", "_", "S", "M", "D", ":", "L">>
      [] comp_type = <<"D">> -> <<"D", "i", "o", "d", "e", "_", "S", "M", "D", ":", "D">>
      [] comp_type = <<"L", "E", "D">> -> <<"L", "E", "D", "_", "S", "M", "D", ":", "L", "E", "D">>
      [] comp_type = <<"F">> -> <<"F", "u", "s", "e", ":", "F", "u", "s", "e">>

PassiveFamilies == {<<"R">>, <<"C">>, <<"L">>, <<"D">>, <<"L", "E", "D">>, <<"F">>, <<"F", "B">>}

\* lines 54-70: the entry of the package table for a hint
ExpandPackage(pkg, comp_type) ==
    IF StartsWith(pkg, <<"_">>) /\ comp_type \in PassiveFamilies
    THEN SizeFamilyPrefix(comp_type) \o pkg
    ELSE pkg

\* lines 83-86: the first key of the part table, in the order of the table,
\* that the type or the value starts with; 0 when there is none
FirstPrefixKey(parts, comp_type, val) ==
    IF \E k \in 1..Len(parts) : StartsWith(comp_type, parts[k][1]) \/ StartsWith(val, parts[k][1])
    THEN CHOOSE k \in 1..Len(parts) :
             /\ StartsWith(comp_type, parts[k][1]) \/ StartsWith(val, parts[k][1])
             /\ \A j \in 1..(k - 1) :
                    ~(StartsWith(comp_type, parts[j][1]) \/ StartsWith(val, parts[j][1]))
    ELSE 0

\* lines 72-86 with the value looked up before the type
PartMatch_value_first(parts, comp_type, val) ==
    IF HasKey(parts, val) THEN <<ValueOf(parts, val)>>
    ELSE IF HasKey(parts, comp_type) THEN <<ValueOf(parts, comp_type)>>
    ELSE IF FirstPrefixKey(parts, comp_type, val) > 0
    THEN <<parts[FirstPrefixKey(parts, comp_type, val)][2]>>
    ELSE <<>>

\* lines 72-86: what the part table gives, <<>> when nothing matches
PartMatch(parts, comp_type, val) ==
    IF HasKey(parts, comp_type) THEN <<ValueOf(parts, comp_type)>>
    ELSE IF HasKey(parts, val) THEN <<ValueOf(parts, val)>>
    ELSE IF FirstPrefixKey(parts, comp_type, val) > 0
    THEN <<parts[FirstPrefixKey(parts, comp_type, val)][2]>>
    ELSE <<>>

\* lookup_footprint, lines 36-106, on the data _load_footprints returns.
\* Lines 93-104 are never reached with a hint the package table has: line 54
\* has returned for it.
lookup_footprint_data(data, comp_type, val, footprint_hint) ==
    IF footprint_hint # <<>> /\ IndexOf(footprint_hint, ":") > 0 THEN footprint_hint
    ELSE IF footprint_hint # <<>> /\ HasKey(data.packages, footprint_hint)
    THEN ExpandPackage(ValueOf(data.packages, footprint_hint), comp_type)
    ELSE IF PartMatch(data.parts, comp_type, val) # <<>>
    THEN PartMatch(data.parts, comp_type, val)[1]
    ELSE IF HasKey(data.passives, comp_type) THEN ValueOf(data.passives, comp_type)
    ELSE <<>>

\* the tables the calls are made with
FpSOIC == <<"P", "a", "c", "k", "a", "g", "e", "_", "S", "O", ":", "S", "O", "I", "C", "-", "8">>
FpTO220 == <<"P", "a", "c", "k", "a", "g", "e", "_", "T", "O", ":", "T", "O", "-", "2", "2", "0", "-", "3">>
FpR0805 == <<"R", "e", "s", "i", "s", "t", "o", "r", "_", "S", "M", "D", ":", "R", "_", "0", "8", "0", "5">>
FpLED == <<"L", "E", "D", "_", "S", "M", "D", ":", "L", "E", "D", "_", "0", "6", "0", "3">>

PackageTable == << << <<"0", "6", "0", "3">>, <<"_", "0", "6", "0", "3">> >>, << <<"S", "O", "I", "C", "-", "8">>, FpSOIC >> >>

FootprintTables ==
    { NoFootprintData,
      [passives |-> << << <<"R">>, FpR0805 >>, << <<"L", "E", "D">>, FpLED >>, << <<"L", "M", "7", "8", "0", "5">>, FpLED >> >>,
       packages |-> PackageTable,
       parts |-> << << <<"M", "C", "P", "2", "5", "5", "1">>, FpSOIC >>, << <<"L", "M", "7", "8", "0", "5">>, FpTO220 >> >>],
      [passives |-> << << <<"R">>, FpR0805 >> >>,
       packages |-> PackageTable,
       parts |-> << << <<"L", "M", "7", "8">>, FpTO220 >>, << <<"M", "C", "P">>, FpSOIC >>, << <<"R">>, FpLED >> >>],
      [passives |-> << << <<"R">>, FpR0805 >>, << <<"L", "M", "7", "8", "0", "5">>, FpLED >> >>,
       packages |-> <<>>,
       parts |-> << << <<"M", "C", "P">>, FpSOIC >>, << <<"L", "M", "7", "8">>, FpTO220 >> >>] }

LookupTypes == {<<"R">>, <<"L", "E", "D">>, <<"L", "M", "7", "8", "0", "5">>, <<"M", "C", "P", "2", "5", "5", "1", "X">>, <<"Q">>}
LookupValues == {<<>>, <<"1", "0", "k">>, <<"M", "C", "P", "2", "5", "5", "1">>, <<"L", "M", "7", "8", "L", "0", "5">>}
LookupHints == {<<>>, <<"0", "6", "0", "3">>, <<"S", "O", "I", "C", "-", "8">>, <<"L", "i", "b", ":", "F", "P">>, <<"T", "O", "-", "9", "2">>}

FpStart ==
    /\ fn_pc = "lookup"
    /\ fn_in \in [data : FootprintTables, comp_type : LookupTypes,
                  value : LookupValues, footprint_hint : LookupHints]
    /\ fn_out = <<>>

\* one call of lookup_footprint
LookupFootprint ==
    /\ fn_pc = "lookup"
    /\ fn_out' = lookup_footprint_data(fn_in.data, fn_in.comp_type, fn_in.value,
                                       fn_in.footprint_hint)
    /\ fn_pc' = "looked"
    /\ UNCHANGED <<fn_in, fnRest>>

NextFp == LookupFootprint

HintIsPath == fn_in.footprint_hint # <<>> /\ IndexOf(fn_in.footprint_hint, ":") > 0
HintIsPackage == fn_in.footprint_hint # <<>> /\ HasKey(fn_in.data.packages, fn_in.footprint_hint)
TypeIsPart == HasKey(fn_in.data.parts, fn_in.comp_type)
ValueIsPart == HasKey(fn_in.data.parts, fn_in.value)
PrefixKeys ==
    { k \in 1..Len(fn_in.data.parts) :
        \/ StartsWith(fn_in.comp_type, fn_in.data.parts[k][1])
        \/ StartsWith(fn_in.value, fn_in.data.parts[k][1]) }
TypeIsPassive == HasKey(fn_in.data.passives, fn_in.comp_type)

\* C24: the footprint of a call is decided by the first of these that applies:
\* a hint with a colon is returned as it is; a hint the package table has is
\* expanded, with the library prefix of the type when the entry is a size suffix
\* and the type a passive family; the part table matched on the type, then on
\* the value, then on a key the type or the value starts with; the passive
\* default of the type; the empty string.
C24_LookupPriority ==
    fn_pc = "looked" =>
        /\ HintIsPath => fn_out = fn_in.footprint_hint
        /\ ~HintIsPath /\ HintIsPackage =>
               LET pkg == ValueOf(fn_in.data.packages, fn_in.footprint_hint)
               IN  IF pkg[1] = "_" /\ fn_in.comp_type \in PassiveFamilies
                   THEN /\ SubSeq(fn_out, Len(fn_out) - Len(pkg) + 1, Len(fn_out)) = pkg
                        /\ IndexOf(fn_out, ":") > 0
                        /\ IndexOf(fn_out, ":") <= Len(fn_out) - Len(pkg)
                   ELSE fn_out = pkg
        /\ ~HintIsPath /\ ~HintIsPackage =>
               /\ TypeIsPart => fn_out = ValueOf(fn_in.data.parts, fn_in.comp_type)
               /\ ~TypeIsPart /\ ValueIsPart => fn_out = ValueOf(fn_in.data.parts, fn_in.value)
               /\ ~TypeIsPart /\ ~ValueIsPart /\ PrefixKeys # {} =>
                      \E k \in PrefixKeys : fn_out = fn_in.data.parts[k][2]
               /\ ~TypeIsPart /\ ~ValueIsPart /\ PrefixKeys = {} =>
                      IF TypeIsPassive
                      THEN fn_out = ValueOf(fn_in.data.passives, fn_in.comp_type)
                      ELSE fn_out = <<>>

\* C24: a call where the type and the value are both keys of the part table,
\* the type has a passive default too, the hint is no path and no package, and
\* the part of the type is returned
C24_Witness ==
    /\ fn_pc = "looked"
    /\ ~HintIsPath /\ ~HintIsPackage
    /\ TypeIsPart /\ ValueIsPart /\ TypeIsPassive
    /\ ValueOf(fn_in.data.parts, fn_in.comp_type) # ValueOf(fn_in.data.parts, fn_in.value)
    /\ fn_out = ValueOf(fn_in.data.parts, fn_in.comp_type)

----------------------------------------------------------------------------
(* decode_schematic on compact schematics of one resistor, and the        *)
(* analysis of the documents it makes                                      *)

\* bound: most wires of a compact schematic of the scenarios
MaxScenWires == 2

\* pin 1 and pin 2 of a resistor at (80, 90), as emit_resistor_symbol places
\* them, and points around it
ScP1 == <<Mm100(8000), Mm100(8619)>>
ScP2 == <<Mm100(8000), Mm100(9381)>>
ScA == <<Mm100(8000), Mm100(8000)>>
ScB == <<Mm100(7000), Mm100(8000)>>
ScC == <<Mm100(8000), Mm100(10000)>>
ScD == <<Mm100(6000), Mm100(7000)>>
ScE == <<Mm100(6500), Mm100(7000)>>
ScF == <<Mm100(7000), Mm100(8619)>>

ScenR1 ==
    [ref |-> <<"R", "1">>, type |-> <<"R">>, value |-> <<"1", "0", "k">>, footprint |-> <<>>,
     x |-> Mm100(8000), y |-> Mm100(9000), w |-> 0, h |-> Mm100(762), a |-> 0]

Plus5V == <<"+", "5", "V">>
AnonN1 == <<"N", "1">>
Ghost == <<"G", "H", "O", "S", "T">>

\* the nets of the example; nets with a pin of a component that is not there
\* and a name that starts with N; a ground net and a signal net
ExampleNets ==
    << [name |-> Plus5V, pins |-> << <<<<"R", "1">>, <<"1">>>> >>],
       [name |-> AnonN1, pins |-> << <<<<"R", "1">>, <<"2">>>> >>] >>

ScenNets ==
    { ExampleNets,
      << [name |-> Plus5V, pins |-> << <<<<"R", "1">>, <<"1">>>>, <<<<"U", "9">>, <<"3">>>> >>],
         [name |-> <<"N", "R", "S", "T">>, pins |-> << <<<<"R", "1">>, <<"2">>>> >>] >>,
      << [name |-> GND, pins |-> << <<<<"R", "1">>, <<"2">>>> >>],
         [name |-> <<"S", "I", "G">>, pins |-> << <<<<"R", "1">>, <<"1">>>> >>] >> }

\* the wires a scenario may have: of its first net from pin 1 to a free
\* end, away from the resistor, with a corner and through pin 1; of its
\* second net from pin 2 to a free end and of one point only; and of a net
\* that is not among its nets
ScenWires(ns) ==
    { [net |-> ns[1].name, points |-> <<ScP1, ScA>>],
      [net |-> ns[1].name, points |-> <<ScD, ScE>>],
      [net |-> ns[1].name, points |-> <<ScP1, ScA, ScB>>],
      [net |-> ns[1].name, points |-> <<ScF, ScP1, ScA>>],
      [net |-> ns[2].name, points |-> <<ScP2, ScC>>],
      [net |-> ns[2].name, points |-> <<ScA>>],
      [net |-> Ghost, points |-> <<ScD, ScE>>] }

ScenDocs ==
    UNION { { [title |-> <<"t">>, components |-> <<ScenR1>>, pins |-> <<>>,
               nets |-> ns, wires |-> ws, raised |-> FALSE] :
                 ws \in SeqsUpTo(ScenWires(ns), MaxScenWires) } : ns \in ScenNets }

\* a compact schematic is handed to decode_schematic, and the document is
\* then parsed and analysed
ScenStart ==
    /\ tsch \in ScenDocs
    /\ doc = NoDoc /\ sch = NoSch /\ cn_pc = "decode" /\ parent = <<>>
    /\ cn_k = 1 /\ nets = <<>> /\ anonymous_counter = 1 /\ netlist = NoNetlist
    /\ tokn_text = <<>> /\ rt_pass = 1 /\ netlist1 = NoNetlist
    /\ dc_pc = <<>> /\ hash_order = <<>> /\ dc_out = <<>>

NextScen ==
    \/ DecodeBack
    \/ ParseSchematic
    \/ Cluster
    \/ NetOfGroup
    \/ FinishAnalysis

\* the document has been decoded
Decoded == cn_pc \in {"parse", "cluster", "nets", "done"}

\* the example: R1, the net +5V on R1.1, the net N1 on R1.2, one wire per net
IsExample(ts) ==
    /\ ts.nets = ExampleNets
    /\ Len(ts.wires) = 2
    /\ { ts.wires[1].net, ts.wires[2].net } = { Plus5V, AnonN1 }

\* C11: the decoded example, parsed and analysed, gives a netlist with
\* exactly 1 real component and exactly 2 nets, one of them named +5V with
\* is_power true, whatever the points of its two wires.
C11_ExampleScenario ==
    (IsExample(tsch) /\ cn_pc = "done") =>
        /\ Len(netlist.components) = 1
        /\ Len(netlist.nets) = 2
        /\ \E k \in 1..Len(netlist.nets) :
              netlist.nets[k].name = Plus5V /\ netlist.nets[k].is_power

\* the pins of the nets that name a component that is not there, and the
\* wires of a net that is not among the nets
DanglingPins(ts) ==
    { pin \in UNION { { ts.nets[n].pins[p] : p \in 1..Len(ts.nets[n].pins) } :
                        n \in 1..Len(ts.nets) } : ~HasComp(ts, pin[1]) }

\* the compact schematic without them
Consistent(ts) ==
    [ts EXCEPT
        !.nets = [n \in 1..Len(ts.nets) |->
                     [ts.nets[n] EXCEPT
                         !.pins = SelectSeq(ts.nets[n].pins,
                                            LAMBDA pin : HasComp(ts, pin[1]))]],
        !.wires = SelectSeq(ts.wires, LAMBDA w : ~IsGhostWire(ts, w))]

\* line 163, comp_map[ref]: a KeyError when a pin with a position has no
\* component
KeyErrorAt163(positions, ts) ==
    \E k \in 1..Len(positions) : ~HasComp(ts, positions[k].key[1])

\* the segments of the wires of a compact schematic, wire after wire
SegmentsOf(ws) ==
    Concat([i \in 1..Len(ws) |->
       IF Len(ws[i].points) < 2 THEN <<>>
       ELSE [j \in 1..(Len(ws[i].points) - 1) |->
                <<ws[i].points[j], ws[i].points[j + 1]>>]])

\* the parts of the document that are not its wires and junctions agree
SameRest(d, e) == d.libs = e.libs /\ d.syms = e.syms /\ d.labels = e.labels

\* C14: decode_schematic does not raise on a compact schematic with a pin
\* of a component that is not there or a wire of a net that is not among
\* the nets: such a pin gets no position, the wires of such a net are
\* emitted segment by segment with the others, and the library symbols,
\* symbol instances and labels are those of the schematic without them.
C14_Permissive ==
    Decoded =>
        /\ ~KeyErrorAt163(pin_positions(tsch), tsch)
        /\ \A k \in 1..Len(pin_positions(tsch)) :
              pin_positions(tsch)[k].key \notin DanglingPins(tsch)
        /\ doc.wires = SegmentsOf(tsch.wires)
        /\ \E order \in Orders(PowerNamesOf(tsch)) :
              SameRest(doc, ReadDecoded(decode_schematic(Consistent(tsch), order)))

\* C14, its case: a schematic with a pin of U9, which is not a component,
\* and a wire of two points or more of the net GHOST has been decoded
C14_Witness ==
    /\ Decoded
    /\ DanglingPins(tsch) # {}
    /\ \E k \in 1..Len(tsch.wires) :
          IsGhostWire(tsch, tsch.wires[k]) /\ Len(tsch.wires[k].points) >= 2
    /\ Len(doc.wires) >= 1

\* the segments emitted for the wires of a net, and how many of them end at
\* a point, rounded to 2 decimals
SegmentsOfNet(ts, name) ==
    SegmentsOf(SelectSeq(ts.wires, LAMBDA w : w.net = name))

EndsAt(segs, pt) ==
    Cardinality({ k \in 1..Len(segs) : Round2(segs[k][1]) = pt \/ Round2(segs[k][2]) = pt })

IsPowerSymbol(s) == StartsWith(s.lib_id, <<"p", "o", "w", "e", "r", ":">>)

\* C15: every power symbol of the decoded document is at a point where
\* exactly one emitted segment of its net ends and where no pin of a
\* component has its inferred position.
C15_PowerAtTerminal ==
    Decoded =>
        \A k \in 1..Len(doc.syms) :
            IsPowerSymbol(doc.syms[k]) =>
                /\ EndsAt(SegmentsOfNet(tsch, doc.syms[k].value),
                          <<doc.syms[k].x, doc.syms[k].y>>) = 1
                /\ <<doc.syms[k].x, doc.syms[k].y>>
                       \notin comp_pin_set(pin_positions(tsch))

\* a name of the form N<number>
IsNNumber(name) == StartsWith(name, <<"N">>) /\ IsDigits(Tail(name))

LabelsAt(d, name, pt) ==
    Cardinality({ k \in 1..Len(d.labels) : d.labels[k].name = name /\ d.labels[k].at = pt })

\* C16: every net whose name is not a power name and not of the form
\* N<number> has exactly one global label at each terminal point of its
\* wires that is at no pin of a component.
C16_LabelsOfNets ==
    Decoded =>
        \A n \in 1..Len(tsch.nets) :
            (~IsPowerName(tsch.nets[n].name) /\ ~IsNNumber(tsch.nets[n].name)) =>
                LET ends == Terminals(tsch, comp_pin_set(pin_positions(tsch)),
                                      tsch.nets[n].name)
                IN  \A e \in 1..Len(ends) :
                       LabelsAt(doc, tsch.nets[n].name, <<ends[e][2], ends[e][3]>>) = 1

\* C17: the decoded document has a junction at a point exactly when 3 or
\* more of the segments emitted for the wires end at that point.
C17_JunctionsAtThree ==
    Decoded =>
        \A pt \in { Round2(q) : q \in {ScP1, ScP2, ScA, ScB, ScC, ScD, ScE, ScF} }
                  \cup { doc.junctions[k] : k \in 1..Len(doc.junctions) } :
            (\E k \in 1..Len(doc.junctions) : doc.junctions[k] = pt)
                <=> EndsAt(doc.wires, pt) >= 3

\* the first and the last point of the wires of a net
WireEnds(ts, name) ==
    Concat([k \in 1..Len(ts.wires) |->
               IF ts.wires[k].net = name /\ ts.wires[k].points # <<>>
               THEN <<ts.wires[k].points[1], ts.wires[k].points[Len(ts.wires[k].points)]>>
               ELSE <<>>])

\* the position of a pin, <<>> when it has none
PositionOf(positions, pin) ==
    IF \E k \in 1..Len(positions) : positions[k].key = pin
    THEN (CHOOSE e \in { positions[k] : k \in 1..Len(positions) } : e.key = pin).pt
    ELSE <<>>

\* C18: the position of a pin of a net whose component is there is one of
\* the first and last points of the wires of the net, and no other of them
\* is closer to the (x, y) of the component; a pin of a net without wires
\* has no position.
C18_NearestEndpoint ==
    Decoded =>
        \A n \in 1..Len(tsch.nets) : \A p \in 1..Len(tsch.nets[n].pins) :
            HasComp(tsch, tsch.nets[n].pins[p][1]) =>
                LET ends == WireEnds(tsch, tsch.nets[n].name)
                    comp == CompOf(tsch, tsch.nets[n].pins[p][1])
                    pos == PositionOf(pin_positions(tsch), tsch.nets[n].pins[p])
                IN  IF ends = <<>> THEN pos = <<>>
                    ELSE /\ \E e \in 1..Len(ends) : ends[e] = pos
                         /\ \A e \in 1..Len(ends) :
                               Dist2(pos, comp.x, comp.y) <= Dist2(ends[e], comp.x, comp.y)

----------------------------------------------------------------------------
(* decode_schematic on compact schematics with components of generic      *)
(* types, and the pins parse_schematic_expr gives them                     *)

\* bound: most wires of a compact schematic with generic components
MaxGenWires == 2

GenComp(ref, type, x, a) ==
    [ref |-> ref, type |-> type, value |-> type, footprint |-> <<>>,
     x |-> x, y |-> Mm100(10000), w |-> Mm100(2000), h |-> Mm100(1000), a |-> a]

LM358 == <<"L", "M", "3", "5", "8">>
NE555 == <<"N", "E", "5", "5", "5">>

\* one component; two of different types; two of the same type; one turned
\* by 90 degrees; two of different types with the same reference, as in a
\* schematic that is not annotated; one beside a resistor
GenComponents ==
    { << GenComp(<<"U", "1">>, LM358, Mm100(10000), 0) >>,
      << GenComp(<<"U", "1">>, LM358, Mm100(10000), 0), GenComp(<<"U", "2">>, NE555, Mm100(12000), 0) >>,
      << GenComp(<<"U", "1">>, LM358, Mm100(10000), 0), GenComp(<<"U", "2">>, LM358, Mm100(12000), 0) >>,
      << GenComp(<<"U", "1">>, LM358, Mm100(10000), 90) >>,
      << GenComp(<<"U", "?">>, LM358, Mm100(10000), 0), GenComp(<<"U", "?">>, NE555, Mm100(12000), 0) >>,
      << GenComp(<<"U", "1">>, LM358, Mm100(10000), 0), ToknR(<<"R", "1">>, Mm100(12000)) >> }

\* the first component on the net A with pin 1, the second on the net B, or
\* both on the net A
GenNets(cs) ==
    { << [name |-> <<"A">>, pins |-> << <<cs[1].ref, <<"1">>>> >>] >>,
      << [name |-> <<"A">>, pins |-> << <<cs[1].ref, <<"1">>>> >>],
         [name |-> <<"B">>, pins |-> << <<cs[Len(cs)].ref, <<"2">>>> >>] >>,
      << [name |-> <<"A">>, pins |-> << <<cs[1].ref, <<"1">>>>, <<cs[Len(cs)].ref, <<"3">>>> >>] >> }

GenWires ==
    { [net |-> <<"A">>, points |-> << <<Mm100(11000), Mm100(9746)>>, <<Mm100(11300), Mm100(9746)>> >>],
      [net |-> <<"A">>, points |-> << <<Mm100(9000), Mm100(10254)>>, <<Mm100(8500), Mm100(10254)>> >>],
      [net |-> <<"B">>, points |-> << <<Mm100(12600), Mm100(10254)>>, <<Mm100(13000), Mm100(10254)>> >>] }

GenDocs ==
    UNION { UNION { { [title |-> <<"t">>, components |-> cs, pins |-> <<>>,
                       nets |-> ns, wires |-> ws, raised |-> FALSE] :
                         ws \in SeqsUpTo(GenWires, MaxGenWires) } : ns \in GenNets(cs) } :
            cs \in GenComponents }

GenStart ==
    /\ tsch \in GenDocs
    /\ doc = NoDoc /\ sch = NoSch /\ cn_pc = "decode" /\ parent = <<>>
    /\ cn_k = 1 /\ nets = <<>> /\ anonymous_counter = 1 /\ netlist = NoNetlist
    /\ tokn_text = <<>> /\ rt_pass = 1 /\ netlist1 = NoNetlist
    /\ dc_pc = <<>> /\ hash_order = <<>> /\ dc_out = <<>>

NextGen ==
    \/ DecodeBack
    \/ ParseSchematic

\* a component of a generic type, not turned, the only one of its type
SoleGeneric(ts, k) ==
    /\ ts.components[k].type \notin {<<"R">>, <<"C">>}
    /\ ts.components[k].a = 0
    /\ \A j \in 1..Len(ts.components) : j # k => ts.components[j].type # ts.components[k].type

\* the k-th component of the parsed document has the pin at the point, within
\* the tolerance of the analysis
PinReproduced(s, k, number, pt) ==
    /\ k <= Len(s.components)
    /\ \E p \in 1..Len(s.components[k].pins) :
           /\ s.components[k].pins[p].number = number
           /\ points_match(s.components[k].pins[p].pos, pt, Tolerance)

\* C29: a component of a generic type with angle 0 that is the only one of
\* its type has, in the parsed document, each of its pins decode_schematic
\* found a position for at the wire endpoint the position was taken from,
\* within the tolerance of the analysis.
C29_PinsReproduced ==
    cn_pc = "cluster" =>
        \A k \in 1..Len(tsch.components) :
            SoleGeneric(tsch, k) =>
                \A e \in Range(pin_positions(tsch)) :
                    e.key[1] = tsch.components[k].ref =>
                        PinReproduced(sch, k, e.key[2], e.pt)

----------------------------------------------------------------------------
(* analyze_connectivity from line 196 on: the nets of the clusters merged  *)
(* by name and sorted                                                      *)

\* bound: most nets the loop over the clusters has made
MaxClusterNets == 3

PinR11 == <<<<"R", "1">>, <<"1">>, <<"~">>>>
PinR12 == <<<<"R", "1">>, <<"2">>, <<"~">>>>
PinR21 == <<<<"R", "2">>, <<"1">>, <<"~">>>>
PinR22 == <<<<"R", "2">>, <<"2">>, <<"~">>>>

\* the nets of the clusters: named by a power symbol (is_power), by a label
\* or by the counter
ClusterNetPool ==
    { [name |-> <<"+", "5", "V">>, pins |-> <<PinR11>>, wires |-> << <<PtA, PtB>> >>,
       is_power |-> TRUE],
      [name |-> <<"+", "5", "V">>, pins |-> <<PinR21, PinR11>>, wires |-> << <<PtD, PtE>> >>,
       is_power |-> FALSE],
      [name |-> <<"+", "3", "V", "3">>, pins |-> <<PinR12>>, wires |-> << <<PtB, PtC>> >>,
       is_power |-> TRUE],
      [name |-> <<"+", "1", "2", "V">>, pins |-> <<PinR22>>, wires |-> << <<PtC, PtD>> >>,
       is_power |-> TRUE],
      [name |-> GND, pins |-> <<PinR21>>, wires |-> << <<PtA, PtE>> >>,
       is_power |-> TRUE],
      [name |-> <<"-", "5", "V">>, pins |-> <<PinR22>>, wires |-> << <<PtA, PtB>>, <<PtB, PtC>> >>,
       is_power |-> TRUE],
      [name |-> <<"S", "I", "G">>, pins |-> <<PinR12, PinR21>>, wires |-> << <<PtD, PtE>> >>,
       is_power |-> FALSE],
      [name |-> <<"N", "1">>, pins |-> <<PinR12>>, wires |-> << <<PtC, PtD>> >>,
       is_power |-> FALSE] }

\* the call is at line 196, the loop over the clusters done
NetsStart ==
    /\ nets \in SeqsUpTo(ClusterNetPool, MaxClusterNets)
    /\ doc = NoDoc /\ sch = NoSch /\ cn_pc = "nets" /\ parent = <<>>
    /\ cn_k = 1 /\ anonymous_counter = 1 /\ netlist = NoNetlist
    /\ tokn_text = <<>> /\ rt_pass = 1 /\ netlist1 = NoNetlist

NextNets == FinishAnalysis

\* the nets of the clusters that have a name, in the order of the clusters
ClustersNamed(name) == SelectSeq(nets, LAMBDA n : n.name = name)

\* the voltage a power name denotes, in thousandths: the digits, with the V
\* between two digits read as the decimal point
DenotedVoltage(name) ==
    Voltage([k \in 1..Len(name) |->
                IF /\ name[k] = "V" /\ 1 < k /\ k < Len(name)
                   /\ name[k - 1] \in Digits /\ name[k + 1] \in Digits
                THEN "." ELSE name[k]]).v

\* the place of a net in the order: its class and its number in the class
OrderClass(net) ==
    IF net.is_power THEN
        IF StartsWith(net.name, <<"+">>) THEN 0
        ELSE IF StartsWith(net.name, GND) THEN 1
        ELSE 2
    ELSE IF IsNNumber(net.name) THEN 4 ELSE 3

OrderNumber(net) ==
    IF net.is_power /\ StartsWith(net.name, <<"+">>) THEN -DenotedVoltage(net.name)
    ELSE IF net.is_power /\ StartsWith(net.name, <<"-">>) THEN DenotedVoltage(net.name)
    ELSE IF ~net.is_power /\ IsNNumber(net.name) THEN ParseInt(Tail(net.name))
    ELSE 0

\* C19: in the returned netlist the power nets come first, those of a
\* positive voltage by descending voltage (3.3 for +3V3), then the ground
\* nets, then those of a negative voltage; then the other named nets; then
\* the nets N<k> by increasing k.
C19_NetOrder ==
    cn_pc = "done" =>
        \A i, j \in 1..Len(netlist.nets) :
            i < j =>
                \/ OrderClass(netlist.nets[i]) < OrderClass(netlist.nets[j])
                \/ /\ OrderClass(netlist.nets[i]) = OrderClass(netlist.nets[j])
                   /\ OrderNumber(netlist.nets[i]) <= OrderNumber(netlist.nets[j])

\* C20: in the returned netlist no two nets have the same name; the net of
\* a name has the pins of the clusters of that name, each once, their wires
\* and the OR of their is_power flags.
C20_MergedByName ==
    cn_pc = "done" =>
        /\ \A i, j \in 1..Len(netlist.nets) :
              i # j => netlist.nets[i].name # netlist.nets[j].name
        /\ { netlist.nets[i].name : i \in 1..Len(netlist.nets) }
              = { nets[k].name : k \in 1..Len(nets) }
        /\ \A i \in 1..Len(netlist.nets) :
              LET net == netlist.nets[i]
                  parts == ClustersNamed(net.name)
              IN  /\ Range(net.pins) = UNION { Range(parts[k].pins) : k \in 1..Len(parts) }
                  /\ Len(net.pins) = Cardinality(Range(net.pins))
                  /\ net.wires = Concat([k \in 1..Len(parts) |-> parts[k].wires])
                  /\ net.is_power = (\E k \in 1..Len(parts) : parts[k].is_power)

\* C20, its case: two clusters named +5V, one of a power symbol and one of
\* a label, with a pin in common, have been merged into one net
C20_Witness ==
    /\ cn_pc = "done"
    /\ \E a, b \in 1..Len(nets) :
          /\ a < b /\ nets[a].name = nets[b].name
          /\ nets[a].is_power # nets[b].is_power
          /\ Range(nets[a].pins) \cap Range(nets[b].pins) # {}
    /\ Len(netlist.nets) < Len(nets)

----------------------------------------------------------------------------
(* analyze_connectivity on schematics with labels and junctions *)

\* bound: most junctions of a document
MaxJunctions == 1

\* from a point on WireUp that is no vertex of it, to the right
WireTee == << <<Mm100(10000), Mm100(9300)>>, <<Mm100(10500), Mm100(9300)>> >>
\* two wires that end 0.008 to the left and to the right of pin 1 of R1
WireNearLeft == << <<Mm100(9999) + 200, Mm100(9619)>>, <<Mm100(9500), Mm100(9619)>> >>
WireNearRight == << <<Mm100(10000) + 800, Mm100(9619)>>, <<Mm100(10500), Mm100(9619)>> >>

AnaWires ==
    { <<WireUp, WireDown>>, <<WireDown, WireUp>>, <<WireNearLeft, WireNearRight>>,
      <<WireUp, WireTee>>, <<WireUp>> }

AnaLabels ==
    { <<>>,
      << [name |-> <<"O", "U", "T">>, at |-> <<Mm100(10000), Mm100(9000)>>] >>,
      << [name |-> <<"N", "1">>, at |-> <<Mm100(10000), Mm100(11000)>>] >> }

JunctionPool == { <<Mm100(10000), Mm100(9300)>>, <<Mm100(10000), Mm100(9000)>> }

AnaJunctions == SeqsUpTo(JunctionPool, MaxJunctions)

AnaDocs ==
    { [title |-> <<"t">>, libs |-> <<LibR>>, syms |-> <<SymR1>>, wires |-> ws,
       junctions |-> js, labels |-> lb] :
        ws \in AnaWires, js \in AnaJunctions, lb \in AnaLabels }

AnaStart ==
    /\ doc \in AnaDocs
    /\ sch = NoSch /\ cn_pc = "parse" /\ parent = <<>>
    /\ cn_k = 1 /\ nets = <<>> /\ anonymous_counter = 1 /\ netlist = NoNetlist
    /\ tokn_text = <<>> /\ rt_pass = 1 /\ netlist1 = NoNetlist

\* the schematic with other junctions and nothing else changed, parsed and
\* analysed after the first: the netlist of the first is kept in netlist1
OtherJunctions ==
    /\ cn_pc = "done" /\ rt_pass = 1
    /\ \E js \in AnaJunctions \ {doc.junctions} : doc' = [doc EXCEPT !.junctions = js]
    /\ netlist1' = netlist
    /\ rt_pass' = 2
    /\ cn_pc' = "parse"
    /\ UNCHANGED <<sch, parent, cn_k, nets, anonymous_counter, netlist, tokn_text,
                   connRest>>

NextAna ==
    \/ ParseSchematic
    \/ Cluster
    \/ NetOfGroup
    \/ FinishAnalysis
    \/ OtherJunctions

\* the clusters of wires of the analysed schematic, by their place among the roots
Clusters == 1..Len(GroupRoots(parent))

ClusterWires(k) == WireSegments(sch.wires, parent, GroupRoots(parent)[k])

ClusterPins(k) ==
    TouchingPins(sch, GroupPoints(sch.wires, parent, GroupRoots(parent)[k]), Tolerance)

\* the names labels and power symbols give a cluster
ClusterNames(k) ==
    TouchingLabels(sch, GroupPoints(sch.wires, parent, GroupRoots(parent)[k]), Tolerance)
    \cup PowerNames(sch, ClusterPins(k))

\* the cluster has become a net, and its wires are among those of net n
ClusterInNet(k, n) ==
    /\ RealPins(sch, ClusterPins(k)) # <<>>
    /\ \A i \in 1..Len(ClusterWires(k)) : ClusterWires(k)[i] \in Range(netlist.nets[n].wires)

\* C25: two clusters of wires are found in the same net of the netlist only
\* if a label or a power symbol gave both of them the same name; a cluster
\* without label and power symbol shares its net with no other cluster.
C25_MergedOnlyByName ==
    cn_pc = "done" =>
        \A k1 \in Clusters, k2 \in Clusters, n \in 1..Len(netlist.nets) :
            k1 # k2 /\ ClusterInNet(k1, n) /\ ClusterInNet(k2, n) =>
                ClusterNames(k1) \cap ClusterNames(k2) # {}

\* every (net, place in its pin list) of the netlist
PinPlaces ==
    UNION { { <<n, p>> : p \in 1..Len(netlist.nets[n].pins) } : n \in 1..Len(netlist.nets) }

\* C26: in the netlist every (reference, pin number) is found in at most one
\* net and at most once in the pin list of that net.
C26_PinInOneNet ==
    cn_pc = "done" =>
        \A a \in PinPlaces, b \in PinPlaces :
            a # b =>
                <<netlist.nets[a[1]].pins[a[2]][1], netlist.nets[a[1]].pins[a[2]][2]>>
                # <<netlist.nets[b[1]].pins[b[2]][1], netlist.nets[b[1]].pins[b[2]][2]>>

----------------------------------------------------------------------------
(* Claims about the pipeline *)

\* the row 'name,pins' of a net: the pins ref.pinNumber joined by commas, in
\* double quotes when they are more than one
NameAndPins(net) ==
    LET each == [k \in 1..Len(net.pins) |-> net.pins[k][1] \o <<".">> \o net.pins[k][2]]
        joined == Join(each, <<",">>)
    IN  quote_value(net.name) \o <<",">>
        \o (IF Len(each) > 1 THEN <<DQ>> \o joined \o <<DQ>> ELSE joined)

EncodeEnded == cn_pc \in {"encoded", "encode_raised"}

\* C4: encode_tokn returns text for a schematic and the netlist derived from
\* it, and the text holds exactly one row 'name,pins' for every net.
C4_EncodeWritesNets ==
    EncodeEnded =>
        /\ cn_pc = "encoded"
        /\ \A n \in 1..Len(netlist.nets) :
              Cardinality({ k \in 1..Len(tokn_text) :
                              Strip(tokn_text[k]) = NameAndPins(netlist.nets[n]) }) = 1

\* the partition of the (reference, pin number) pairs into nets
PinPartition(nl) ==
    { { <<nl.nets[n].pins[p][1], nl.nets[n].pins[p][2]>> : p \in 1..Len(nl.nets[n].pins) } :
        n \in 1..Len(nl.nets) }

RoundTripEnded ==
    \/ cn_pc \in {"encode_raised", "parse_raised"}
    \/ cn_pc = "done" /\ rt_pass = 2

\* C1: the netlist of the decoded text of the encoded schematic has the same
\* real components and the same partition of the pins into nets as the
\* netlist of the schematic.
C1_RoundTrip ==
    RoundTripEnded =>
        /\ cn_pc = "done"
        /\ Len(netlist.components) = Len(netlist1.components)
        /\ { netlist.components[k].reference : k \in 1..Len(netlist.components) }
             = { netlist1.components[k].reference : k \in 1..Len(netlist1.components) }
        /\ PinPartition(netlist) = PinPartition(netlist1)

----------------------------------------------------------------------------
(* Specifications: one per part of the program, the other parts idle *)

InitSexpr == SexprStart /\ CsvIdle /\ ToknIdle /\ XfIdle /\ ConnIdle /\ DecIdle /\ CallIdle /\ FnIdle
SpecSexpr == InitSexpr /\ [][NextSexpr]_vars

InitCsv == CsvStart /\ SexprIdle /\ ToknIdle /\ XfIdle /\ ConnIdle /\ DecIdle /\ CallIdle /\ FnIdle
SpecCsv == InitCsv /\ [][NextCsv]_vars

InitTokn == ToknStart /\ SexprIdle /\ CsvIdle /\ XfIdle /\ ConnIdle /\ DecIdle /\ CallIdle /\ FnIdle
SpecTokn == InitTokn /\ [][NextTokn]_vars

InitConn == ConnStart /\ SexprIdle /\ CsvIdle /\ ToknIdle /\ XfIdle /\ DecIdle /\ CallIdle /\ FnIdle
SpecConn == InitConn /\ [][NextConn]_vars

InitDec == DecStart /\ SexprIdle /\ CsvIdle /\ ToknIdle /\ XfIdle /\ ConnIdle /\ CallIdle /\ FnIdle
SpecDec == InitDec /\ [][NextDec]_vars

InitXf == XfStart /\ SexprIdle /\ CsvIdle /\ ToknIdle /\ ConnIdle /\ DecIdle /\ CallIdle /\ FnIdle
SpecXf == InitXf /\ [][NextXf]_vars

InitScen == ScenStart /\ SexprIdle /\ CsvIdle /\ ToknIdle /\ XfIdle /\ CallIdle /\ FnIdle
SpecScen == InitScen /\ [][NextScen]_vars

InitCall == CallStart /\ SexprIdle /\ CsvIdle /\ ToknIdle /\ XfIdle /\ ConnIdle /\ DecIdle /\ FnIdle
SpecCall == InitCall /\ [][NextCall]_vars

InitNets == NetsStart /\ SexprIdle /\ CsvIdle /\ ToknIdle /\ XfIdle /\ DecIdle /\ CallIdle /\ FnIdle
SpecNets == InitNets /\ [][NextNets]_vars

InitEnc == EncStart /\ SexprIdle /\ CsvIdle /\ ToknIdle /\ XfIdle /\ ConnIdle /\ DecIdle /\ CallIdle
SpecEnc == InitEnc /\ [][NextEnc]_vars

InitFp == FpStart /\ SexprIdle /\ CsvIdle /\ ToknIdle /\ XfIdle /\ ConnIdle /\ DecIdle /\ CallIdle
SpecFp == InitFp /\ [][NextFp]_vars

InitAna == AnaStart /\ SexprIdle /\ CsvIdle /\ ToknIdle /\ XfIdle /\ DecIdle /\ CallIdle /\ FnIdle
SpecAna == InitAna /\ [][NextAna]_vars

InitEsc == EscStart /\ CsvIdle /\ ToknIdle /\ XfIdle /\ ConnIdle /\ DecIdle /\ CallIdle
SpecEsc == InitEsc /\ [][NextEsc]_vars

InitGen == GenStart /\ SexprIdle /\ CsvIdle /\ ToknIdle /\ XfIdle /\ CallIdle /\ FnIdle
SpecGen == InitGen /\ [][NextGen]_vars

\* parse_tokn runs in one thread to its return: a step that can be taken is taken
SpecToknLive == InitTokn /\ [][NextTokn]_vars /\ WF_vars(NextTokn)

====
